---- MODULE Spec2Model ----
(***************************************************************************)
(* A model of the multi-carrier package tracker: the tracking-number       *)
(* classifier (carrier_detector.py), the carrier adapters and their        *)
(* factory (carrier_api.py) and the batch driver (multi_carrier_tracker.py)*)
(*                                                                         *)
(* Python strings that the code inspects character by character are        *)
(* sequences of one-character strings; strings the code only builds or     *)
(* compares are TLA+ strings.                                              *)
(***************************************************************************)
EXTENDS Integers, Sequences, FiniteSets, TLC

VARIABLES
    det_input,      \* the argument of the classifier call (a character sequence or NoneStr)
    det_result,     \* what detect_carrier returned ("-" before the call)
    det_pc,         \* "call" before the classifier ran, "done" after, "idle" when unused
    par_case,       \* which variant of each part the UPS payload has
    par_input,      \* the payload handed to the UPS response parser
    par_result,     \* the parser's 5-tuple
    par_pc,         \* "call" before the parser ran, "done" (UPS) or "done_dhl" after; "idle" when unused
    api_env,        \* which carriers' credentials the environment holds
    api_self,       \* the adapter instance create_carrier_api returned
    api_pc,         \* "new", then "ready", "none" (no adapter) or "failed" (the factory raised)
    api_op,         \* the last call made, with its arguments and the network's answers
    api_ret,        \* what the last call returned
    api_raised,     \* whether the last call raised to its caller
    api_calls,      \* the network requests the last call made, in order
    api_n,          \* the number of adapter calls made so far
    bat_env,        \* the environment of a batch run: credentials and origin address
    bat_sheet,      \* the sheet: a sequence of rows, each a cell per column A..G
    bat_values,     \* all_values: the rows main fetched before the loop
    bat_pc,         \* "start", "loop", "done"; "idle" when unused
    bat_i,          \* the sheet row the loop is at
    bat_done,       \* per row handed to process_tracking_number: what it did
    bat_end,        \* how main ended: "-", "completed", "returned" or "error" (logged by main)
    mod_calls,      \* the calls made to carrier_detector's functions, in order, with results
    fmt_op,         \* the last formatter call: the method and its argument
    fmt_ret,        \* what that call returned
    seed_before,    \* column A of the sheet when add_tracking_numbers_to_sheet was called
    seed_col,       \* column A of the sheet: a cell per row of the grid, "" when blank
    seed_numbers,   \* the tracking_numbers list handed to it
    seed_writes,    \* the cells it wrote, in order: range and value
    seed_ret,       \* the count it returned
    seed_pc         \* "call" before it ran, "done" after; "idle" when unused

detVars == <<det_input, det_result, det_pc>>
parVars == <<par_case, par_input, par_result, par_pc>>
apiVars == <<api_env, api_self, api_pc, api_op, api_ret, api_raised, api_calls, api_n>>
batVars == <<bat_env, bat_sheet, bat_values, bat_pc, bat_i, bat_done, bat_end>>
modVars == <<mod_calls>>
fmtVars == <<fmt_op, fmt_ret>>
seedVars == <<seed_before, seed_col, seed_numbers, seed_writes, seed_ret, seed_pc>>
vars == <<det_input, det_result, det_pc, par_case, par_input, par_result, par_pc,
          api_env, api_self, api_pc, api_op, api_ret, api_raised, api_calls, api_n,
          bat_env, bat_sheet, bat_values, bat_pc, bat_i, bat_done, bat_end, mod_calls,
          fmt_op, fmt_ret, seed_before, seed_col, seed_numbers, seed_writes, seed_ret, seed_pc>>

(***************************************************************************)
(* Characters                                                              *)
(***************************************************************************)
\* Python's None where a string is expected: no character sequence equals it.
NoneStr == <<"None">>

AsciiDigits == {"0", "1", "2", "3", "4", "5", "6", "7", "8", "9"}
\* A decimal digit outside ASCII (ARABIC-INDIC DIGIT THREE): \d matches it, [0-9] does not.
UniDigit == "#3"
UpperLetters == {"A", "D", "E", "H", "I", "J", "L", "N", "R", "S", "T", "U", "V", "X", "Z"}
LowerLetters == {"a", "s", "u", "z"}
\* str.strip() removes these at both ends; str.replace(' ', '') removes only " ".
Whitespace == {" ", "\t", "\n"}

\* The pattern character classes of CARRIER_PATTERNS.
ClsDigit09 == AsciiDigits
ClsDigitD == AsciiDigits \cup {UniDigit}
ClsUpper == UpperLetters
ClsAlnum == AsciiDigits \cup UpperLetters

\* str.upper(), character by character.
UpperChar(c) ==
    CASE c = "a" -> "A"
      [] c = "s" -> "S"
      [] c = "u" -> "U"
      [] c = "z" -> "Z"
      [] OTHER -> c

(***************************************************************************)
(* String operations of the classifier                                     *)
(***************************************************************************)
RECURSIVE lstrip(_)
lstrip(s) == IF s /= <<>> /\ Head(s) \in Whitespace THEN lstrip(Tail(s)) ELSE s

RECURSIVE rstrip(_)
rstrip(s) ==
    IF s /= <<>> /\ s[Len(s)] \in Whitespace THEN rstrip(SubSeq(s, 1, Len(s) - 1)) ELSE s

strip(s) == rstrip(lstrip(s))

upper(s) == [i \in 1..Len(s) |-> UpperChar(s[i])]

IsNotSpace(c) == c /= " "
replace_space(s) == SelectSeq(s, IsNotSpace)

\* tracking_number.strip().replace(' ', ''): the normalisation without .upper().
normalize_keep_case(s) == replace_space(strip(s))

\* tracking_number.strip().upper().replace(' ', '')
normalize(s) == replace_space(upper(strip(s)))

(***************************************************************************)
(* Regular expressions: a pattern is a sequence of items, each a character *)
(* class and the set of repeat counts it allows; ^ and $ are implied.      *)
(***************************************************************************)
Item(cls, counts) == [cls |-> cls, counts |-> counts]
Lit(c) == Item({c}, {1})

AllIn(s, from, n, cls) == \A k \in from..(from + n - 1) : s[k] \in cls

\* The end of the pattern: $ matches at the end of the string and also just
\* before a newline that ends the string.
AtEnd(s, j) == j = Len(s) + 1 \/ (j = Len(s) /\ s[j] = "\n")

RECURSIVE MatchFrom(_, _, _, _)
MatchFrom(p, i, s, j) ==
    IF i > Len(p)
    THEN AtEnd(s, j)
    ELSE \E n \in p[i].counts :
            /\ j + n - 1 <= Len(s)
            /\ AllIn(s, j, n, p[i].cls)
            /\ MatchFrom(p, i + 1, s, j + n)

\* A match that stops at the end of the pattern wherever that is in the string.
RECURSIVE PrefixMatchFrom(_, _, _, _)
PrefixMatchFrom(p, i, s, j) ==
    IF i > Len(p)
    THEN TRUE
    ELSE \E n \in p[i].counts :
            /\ j + n - 1 <= Len(s)
            /\ AllIn(s, j, n, p[i].cls)
            /\ PrefixMatchFrom(p, i + 1, s, j + n)

re_match_unanchored(p, s) == PrefixMatchFrom(p, 1, s, 1)

\* re.match(pattern, string) for a pattern written ^...$
re_match(p, s) == MatchFrom(p, 1, s, 1)

UPS_PATTERNS == <<
    <<Lit("1"), Lit("Z"), Item(ClsAlnum, {16})>>,
    <<Lit("T"), Item(ClsDigitD, {10})>>,
    <<Item(ClsDigitD, {9})>>,
    <<Item(ClsDigitD, {12})>>,
    <<Item({"H", "V", "R", "U"}, {1}), Item(ClsDigitD, {9})>> >>

USPS_PATTERNS == <<
    <<Lit("9"), Item(ClsDigit09, 15..21)>>,
    <<Item(ClsUpper, {2}), Item(ClsDigit09, {9}), Lit("U"), Lit("S")>>,
    <<Lit("E"), Item(ClsUpper, {1}), Item(ClsDigit09, {9}), Lit("U"), Lit("S")>>,
    <<Item(ClsDigit09, {20})>>,
    <<Item(ClsUpper, {0, 2}), Item(ClsDigit09, {13})>> >>

DHL_PATTERNS == <<
    <<Item(ClsDigit09, {10, 11})>>,
    <<Lit("J"), Lit("D"), Item(ClsDigit09, {18})>>,
    <<Item(ClsDigit09, {4}), Item({" "}, {0, 1}), Item(ClsDigit09, {4}),
      Item({" "}, {0, 1}), Item(ClsDigit09, {2})>> >>

\* The table with the UPS nine-digit rule widened to nine to twelve digits.
CARRIER_PATTERNS_overlap == <<
    [carrier |-> "UPS", patterns |-> <<UPS_PATTERNS[1], UPS_PATTERNS[2],
                                        <<Item(ClsDigitD, 9..12)>>, UPS_PATTERNS[5]>>],
    [carrier |-> "USPS", patterns |-> USPS_PATTERNS],
    [carrier |-> "DHL", patterns |-> DHL_PATTERNS] >>

\* The dict, in its insertion order.
CARRIER_PATTERNS == <<
    [carrier |-> "UPS", patterns |-> UPS_PATTERNS],
    [carrier |-> "USPS", patterns |-> USPS_PATTERNS],
    [carrier |-> "DHL", patterns |-> DHL_PATTERNS] >>

MatchesAny(patterns, s) == \E k \in 1..Len(patterns) : re_match(patterns[k], s)

\* The nested loops over table[from..]: the first carrier with a matching pattern.
RECURSIVE FirstCarrier(_, _, _)
FirstCarrier(table, from, s) ==
    IF from > Len(table) THEN "UNKNOWN"
    ELSE IF MatchesAny(table[from].patterns, s) THEN table[from].carrier
    ELSE FirstCarrier(table, from + 1, s)

\* `not tracking_number`
IsFalsyStr(s) == s = NoneStr \/ s = <<>>

detect_carrier(tracking_number) ==
    IF IsFalsyStr(tracking_number) THEN "UNKNOWN"
    ELSE FirstCarrier(CARRIER_PATTERNS, 1, normalize(tracking_number))

(***************************************************************************)
(* Python values of the adapters                                           *)
(***************************************************************************)
\* None where a built string is expected.
None == "None"

\* A dict is a function from its keys; {} and [] are the empty function.
EmptyDict == <<>>
\* None where a dict is expected.
NoneDict == [is_none |-> TRUE]

Has(d, k) == k \in DOMAIN d
\* d.get(k, default)
Get(d, k, default) == IF Has(d, k) THEN d[k] ELSE default
\* truth value of a dict
TruthyDict(d) == d /= NoneDict /\ DOMAIN d /= {}
\* truth value of a built string
TruthyS(x) == x /= None /\ x /= ""

\* The string a character sequence spells.
RECURSIVE Str(_)
Str(s) == IF s = <<>> THEN "" ELSE Head(s) \o Str(Tail(s))
ToStr(s) == IF s = NoneStr THEN None ELSE Str(s)

(***************************************************************************)
(* The other functions of carrier_detector                                 *)
(***************************************************************************)
\* format_tracking_number that never regroups.
format_tracking_number_plain(tracking_number, carrier) ==
    IF IsFalsyStr(tracking_number) THEN tracking_number ELSE normalize(tracking_number)

\* format_tracking_number(tracking_number, carrier=None)
format_tracking_number(tracking_number, carrier) ==
    IF IsFalsyStr(tracking_number) THEN tracking_number
    ELSE LET tn == normalize(tracking_number)
             c == IF ~TruthyS(carrier) THEN detect_carrier(tn) ELSE carrier
         IN  IF c = "DHL" /\ Len(tn) = 10 /\ re_match(<<Item(ClsDigit09, {10})>>, tn)
             THEN SubSeq(tn, 1, 4) \o <<" ">> \o SubSeq(tn, 5, 8) \o <<" ">>
                  \o SubSeq(tn, 9, Len(tn))
             ELSE tn

\* validate_tracking_number that accepts every non-empty string.
validate_tracking_number_nonempty(tracking_number) == ~IsFalsyStr(tracking_number)

\* validate_tracking_number(tracking_number)
validate_tracking_number(tracking_number) ==
    IF IsFalsyStr(tracking_number) THEN FALSE
    ELSE detect_carrier(normalize(tracking_number)) /= "UNKNOWN"

Digits10 == {"0", "1", "2", "3", "4", "5", "6", "7", "8", "9"}
\* The characters \d, str.isdigit() and int() accept.
DecimalDigits == Digits10 \cup {UniDigit}
\* A digit that is no decimal digit (SUPERSCRIPT TWO): str.isdigit() accepts
\* it, int() raises ValueError on it.
SupDigit == "#sup2"
DigitVal(c) ==
    CASE c = "0" -> 0 [] c = "1" -> 1 [] c = "2" -> 2 [] c = "3" -> 3 [] c = "4" -> 4
      [] c = "5" -> 5 [] c = "6" -> 6 [] c = "7" -> 7 [] c = "8" -> 8 [] c = "9" -> 9
      [] c = UniDigit -> 3

\* str.isdigit()
isdigit(s) == s /= <<>> /\ \A i \in 1..Len(s) : s[i] \in DecimalDigits \cup {SupDigit}
\* int(s) raises ValueError
IntRaises(s) == \E i \in 1..Len(s) : s[i] \notin DecimalDigits

\* int(s) of a string of decimal digits
RECURSIVE int(_)
int(s) == IF s = <<>> THEN 0 ELSE 10 * int(SubSeq(s, 1, Len(s) - 1)) + DigitVal(s[Len(s)])

month_names == <<"January", "February", "March", "April", "May", "June",
                 "July", "August", "September", "October", "November", "December">>

(***************************************************************************)
(* UPSApi: the formatters and the response parser                          *)
(***************************************************************************)
\* format_api_date that keeps the day as the two characters it is given.
UPS_format_api_date_padded(date_str) ==
    IF date_str = NoneStr THEN None
    ELSE IF Len(date_str) >= 8 /\ isdigit(date_str) /\ ~IntRaises(SubSeq(date_str, 5, 6))
            /\ int(SubSeq(date_str, 5, 6)) \in 1..12
    THEN month_names[int(SubSeq(date_str, 5, 6))] \o " " \o Str(SubSeq(date_str, 7, 8))
         \o ", " \o Str(SubSeq(date_str, 1, 4))
    ELSE Str(date_str)

\* format_api_time that keeps the 24-hour clock's hour.
UPS_format_api_time_24h(time_str) ==
    IF time_str = NoneStr THEN None
    ELSE IF Len(time_str) >= 6 /\ isdigit(time_str) /\ ~IntRaises(SubSeq(time_str, 1, 2))
    THEN ToString(int(SubSeq(time_str, 1, 2))) \o ":" \o Str(SubSeq(time_str, 3, 4)) \o " "
         \o (IF int(SubSeq(time_str, 1, 2)) < 12 THEN "AM" ELSE "PM")
    ELSE Str(time_str)

UPS_format_api_date(date_str) ==
    IF date_str = NoneStr THEN None
    ELSE IF date_str = <<>> \/ Len(date_str) < 8 THEN Str(date_str)
    ELSE IF isdigit(date_str)
         THEN LET year == SubSeq(date_str, 1, 4)
                  month_num == int(SubSeq(date_str, 5, 6))
                  day == SubSeq(date_str, 7, 8)
              IN  IF /\ ~IntRaises(SubSeq(date_str, 5, 6))
                     /\ 1 <= month_num /\ month_num <= 12
                     /\ ~IntRaises(day)
                  THEN month_names[month_num] \o " " \o ToString(int(day)) \o ", " \o Str(year)
                  ELSE Str(date_str)
    ELSE Str(date_str)

UPS_format_api_time(time_str) ==
    IF time_str = NoneStr THEN None
    ELSE IF time_str = <<>> \/ Len(time_str) < 6 THEN Str(time_str)
    ELSE IF isdigit(time_str)
         THEN LET hour == int(SubSeq(time_str, 1, 2))
                  minute == SubSeq(time_str, 3, 4)
                  am_pm == IF hour < 12 THEN "AM" ELSE "PM"
                  hour_a == IF hour <= 12 THEN hour ELSE hour - 12
                  hour_12 == IF hour_a = 0 THEN 12 ELSE hour_a
              IN  IF IntRaises(SubSeq(time_str, 1, 2)) THEN Str(time_str)
                  ELSE ToString(hour_12) \o ":" \o Str(minute) \o " " \o am_pm
    ELSE Str(time_str)

\* A status text is a sequence of characters in which a word the code never
\* looks into is a single element.  status.upper() of such an element:
UpperWord(w) ==
    CASE w = "Scheduled Delivery" -> "SCHEDULED DELIVERY"
      [] w = "Out For Delivery" -> "OUT FOR DELIVERY"
      [] w = "Delivered" -> "DELIVERED"
      [] w = "Unknown" -> "UNKNOWN"
      [] OTHER -> w

\* 'SCHEDULED DELIVERY' in status.upper()
HasScheduledDelivery(status) ==
    \E i \in 1..Len(status) : UpperWord(status[i]) = "SCHEDULED DELIVERY"

\* (\d{1,2}/\d{1,2}/\d{2,4}) matched at position i with a, b and c digits.
DateMatchAt(s, i, a, b, c) ==
    /\ i + a + b + c + 1 <= Len(s)
    /\ AllIn(s, i, a, DecimalDigits)
    /\ s[i + a] = "/"
    /\ AllIn(s, i + a + 1, b, DecimalDigits)
    /\ s[i + a + b + 1] = "/"
    /\ AllIn(s, i + a + b + 2, c, DecimalDigits)

DateShapes == {<<a, b, c>> : a \in 1..2, b \in 1..2, c \in 2..4}
Rank(t) == 100 * t[1] + 10 * t[2] + t[3]

\* re.search(r'(\d{1,2}/\d{1,2}/\d{2,4})', status): group 1 of the leftmost
\* match, each repeat as long as it can be; NoneStr when there is no match.
re_search_date(s) ==
    LET starts == {i \in 1..Len(s) : \E t \in DateShapes : DateMatchAt(s, i, t[1], t[2], t[3])}
    IN  IF starts = {} THEN NoneStr
        ELSE LET i == CHOOSE x \in starts : \A y \in starts : x <= y
                 fits == {t \in DateShapes : DateMatchAt(s, i, t[1], t[2], t[3])}
                 t == CHOOSE x \in fits : \A y \in fits : Rank(x) >= Rank(y)
             IN  SubSeq(s, i, i + t[1] + t[2] + t[3] + 1)

\* delivery_date.split('/') of a match: its three parts.
SplitDate(d) ==
    LET slashes == {i \in 1..Len(d) : d[i] = "/"}
        s1 == CHOOSE x \in slashes : \A y \in slashes : x <= y
        s2 == CHOOSE x \in slashes : \A y \in slashes : x >= y
    IN  <<SubSeq(d, 1, s1 - 1), SubSeq(d, s1 + 1, s2 - 1), SubSeq(d, s2 + 1, Len(d))>>

\* Step 1: the first entry of the deliveryDate list with a non-empty date.
RECURSIVE FirstDeliveryDate(_)
FirstDeliveryDate(delivery_dates) ==
    IF delivery_dates = <<>> THEN None
    ELSE LET date == Get(Head(delivery_dates), "date", <<>>)
         IN  IF date /= <<>> /\ date /= NoneStr THEN UPS_format_api_date(date)
             ELSE FirstDeliveryDate(Tail(delivery_dates))

EstimateFromDeliveryDate(package) == FirstDeliveryDate(Get(package, "deliveryDate", <<>>))

\* Step 2 taking an EDW window from whichever of its two times is present.
EstimateFromDeliveryTime_any_edw(package) ==
    LET delivery_time == Get(package, "deliveryTime", EmptyDict)
        start_time == Get(delivery_time, "startTime", <<>>)
        end_time == Get(delivery_time, "endTime", <<>>)
    IN  IF ~TruthyDict(delivery_time) \/ Get(delivery_time, "type", "") \notin {"EDW", "CMT"}
        THEN None
        ELSE IF Get(delivery_time, "type", "") = "CMT"
        THEN (IF end_time /= <<>> THEN "By " \o UPS_format_api_time(end_time) ELSE None)
        ELSE IF start_time /= <<>> /\ end_time /= <<>>
        THEN UPS_format_api_time(start_time) \o " - " \o UPS_format_api_time(end_time)
        ELSE IF start_time /= <<>> THEN UPS_format_api_time(start_time)
        ELSE IF end_time /= <<>> THEN UPS_format_api_time(end_time)
        ELSE None

\* Step 2: the deliveryTime object.
EstimateFromDeliveryTime(package) ==
    LET delivery_time == Get(package, "deliveryTime", EmptyDict)
    IN  IF ~TruthyDict(delivery_time) THEN None
        ELSE LET date_type == Get(delivery_time, "type", "")
                 start_time == Get(delivery_time, "startTime", <<>>)
                 end_time == Get(delivery_time, "endTime", <<>>)
             IN  IF date_type /= "" /\ (start_time /= <<>> \/ end_time /= <<>>)
                 THEN IF date_type = "EDW" /\ start_time /= <<>> /\ end_time /= <<>>
                      THEN UPS_format_api_time(start_time) \o " - " \o UPS_format_api_time(end_time)
                      ELSE IF date_type = "CMT" /\ end_time /= <<>>
                      THEN "By " \o UPS_format_api_time(end_time)
                      ELSE None
                 ELSE None

\* Step 3: the date inside a 'SCHEDULED DELIVERY' status text.
EstimateFromStatus(status) ==
    IF ~HasScheduledDelivery(status) THEN None
    ELSE LET delivery_date == re_search_date(status)
         IN  IF delivery_date = NoneStr THEN None
             ELSE LET parts == SplitDate(delivery_date)
                      month_num == int(parts[1])
                      day == int(parts[2])
                      year == IF Len(parts[3]) = 2 THEN "20" \o Str(parts[3]) ELSE Str(parts[3])
                  IN  IF 1 <= month_num /\ month_num <= 12
                      THEN month_names[month_num] \o " " \o ToString(day) \o ", " \o year
                      ELSE Str(delivery_date)

\* The three sources with the deliveryTime object tried before the deliveryDate list.
DeliveryEstimate_time_first(package, status) ==
    LET e2 == EstimateFromDeliveryTime(package)
        e1 == IF TruthyS(e2) THEN e2 ELSE EstimateFromDeliveryDate(package)
    IN  IF TruthyS(e1) THEN e1 ELSE EstimateFromStatus(status)

\* delivery_estimate of the parser, for a status that is a text: each later
\* source is consulted only `if not delivery_estimate`.
DeliveryEstimate(package, status) ==
    LET e1 == EstimateFromDeliveryDate(package)
        e2 == IF TruthyS(e1) THEN e1 ELSE EstimateFromDeliveryTime(package)
    IN  IF TruthyS(e2) THEN e2 ELSE EstimateFromStatus(status)

\* status.upper() is evaluated, and raises on None, only when steps 1 and 2 gave nothing.
StatusUpperRaises(package, status) ==
    /\ status = NoneStr
    /\ ~TruthyS(EstimateFromDeliveryDate(package))
    /\ ~TruthyS(EstimateFromDeliveryTime(package))

AllNone ==
    [status |-> None, last_update |-> None, location |-> None,
     address |-> NoneDict, delivery_estimate |-> None, failed |-> TRUE]

\* ', '.join(part for part in parts if part)
RECURSIVE JoinNonEmpty(_)
JoinNonEmpty(parts) ==
    IF parts = <<>> THEN ""
    ELSE LET rest == JoinNonEmpty(Tail(parts))
         IN  IF Head(parts) = "" THEN rest
             ELSE IF rest = "" THEN Head(parts)
             ELSE Head(parts) \o ", " \o rest

\* street: the first line of shipTo.address.addressLine (a list or a string).
StreetOf(shipment) ==
    LET ship_to == Get(shipment, "shipTo", EmptyDict)
        ship_to_address == IF TruthyDict(ship_to) THEN Get(ship_to, "address", EmptyDict) ELSE EmptyDict
        street_lines == IF TruthyDict(ship_to_address)
                        THEN Get(ship_to_address, "addressLine", [kind |-> "list", items |-> <<>>])
                        ELSE [kind |-> "list", items |-> <<>>]
    IN  IF street_lines.kind = "list"
        THEN (IF street_lines.items /= <<>> THEN street_lines.items[1] ELSE "")
        ELSE street_lines.value

\* The body of the parser after the three [0] lookups succeeded.
ParseActivity(shipment, package, activity) ==
    LET status == Get(Get(activity, "status", EmptyDict), "description", <<"Unknown">>)
        formatted_date == UPS_format_api_date(Get(activity, "date", <<>>))
        formatted_time == UPS_format_api_time(Get(activity, "time", <<>>))
        last_update == IF TruthyS(formatted_date) /\ TruthyS(formatted_time)
                       THEN formatted_date \o " at " \o formatted_time
                       ELSE IF TruthyS(formatted_date) THEN formatted_date
                       ELSE "Unknown"
        address == Get(Get(activity, "location", EmptyDict), "address", EmptyDict)
        city == Get(address, "city", "")
        state == Get(address, "stateProvince", "")
        country == Get(address, "country", "")
        postal_code == Get(address, "postalCode", "")
        joined == JoinNonEmpty(<<city, state, country>>)
        location == IF joined /= "" THEN joined ELSE "Unknown"
        address_dict == [street |-> StreetOf(shipment), city |-> city, state |-> state,
                         postal_code |-> postal_code, country |-> country]
    IN  IF StatusUpperRaises(package, status) THEN AllNone
        ELSE [status |-> ToStr(status), last_update |-> last_update, location |-> location,
              address |-> address_dict,
              delivery_estimate |-> DeliveryEstimate(package, status), failed |-> FALSE]

\* UPSApi.parse_ups_tracking_response: the 5-tuple, and whether the except
\* branch produced it.
parse_ups_tracking_response(tracking_data) ==
    IF ~TruthyDict(tracking_data) THEN [AllNone EXCEPT !.failed = FALSE]
    ELSE LET shipments == Get(Get(tracking_data, "trackResponse", EmptyDict), "shipment", <<EmptyDict>>)
         IN  IF shipments = <<>> THEN AllNone
             ELSE LET packages == Get(shipments[1], "package", <<EmptyDict>>)
                  IN  IF packages = <<>> THEN AllNone
                      ELSE LET activities == Get(packages[1], "activity", <<EmptyDict>>)
                           IN  IF activities = <<>> THEN AllNone
                               ELSE ParseActivity(shipments[1], packages[1], activities[1])

(***************************************************************************)
(* CarrierAPI and its subclasses                                           *)
(***************************************************************************)
\* The methods CarrierAPI declares with @abstractmethod.
AbstractMethods == {"get_tracking_info", "validate_address", "get_estimated_delivery"}
\* The methods CarrierAPI implements.
BaseMethods == {"format_api_date", "format_api_time", "standardize_response", "get_carrier_name"}
\* The names each class body binds (a name bound twice is one name).
ClassMethods(cls) ==
    CASE cls = "UPSApi" -> {"__init__", "get_oauth_token", "get_tracking_info", "validate_address",
                            "get_estimated_delivery", "parse_ups_tracking_response",
                            "format_api_date", "format_api_time"}
      [] cls = "USPSApi" -> {"__init__", "get_tracking_info", "_get_usps_mock_data"}
      [] cls = "DHLApi" -> {"__init__", "get_tracking_info", "_get_dhl_mock_data",
                            "parse_tracking_response", "format_api_date", "validate_address",
                            "get_estimated_delivery"}

\* self.<name> resolves
HasAttr(cls, name) == name \in ClassMethods(cls) \cup BaseMethods
\* cls() raises TypeError while an abstract method is left unimplemented
CanInstantiate(cls) == AbstractMethods \subseteq ClassMethods(cls)

\* CarrierAPI.standardize_response
standardize_response(tracking_data, status, last_update, location, address, delivery_estimate, carrier_name) ==
    [tracking_data |-> tracking_data, status |-> status, last_update |-> last_update,
     location |-> location, address |-> address, delivery_estimate |-> delivery_estimate,
     carrier |-> carrier_name]

\* standardize_response(None, status=..., carrier_name=...)
ErrorRecord(status, carrier_name) ==
    standardize_response(NoneDict, status, None, None, NoneDict, None, carrier_name)

\* The element of a one-element set: {F(x) : x \in {e}} computes e once for F.
Only(S) == CHOOSE x \in S : TRUE

\* What a method call leaves behind: the instance, the value returned, the
\* network requests made, and whether an exception reached the caller.
Effect(self, ret, calls) == [self |-> self, ret |-> ret, calls |-> calls, raised |-> FALSE]

(***************************************************************************)
(* UPSApi                                                                  *)
(***************************************************************************)
\* The answers the OAuth endpoint can give: a token, 200 without a token, a
\* status other than 200, or an exception raised by the request.
OAuthAnswers == {"token", "no_token", "status", "exception"}

\* UPSApi.get_oauth_token: the token returned (None on any failure).
UPS_get_oauth_token(r_oauth) == IF r_oauth = "token" THEN "tok" ELSE None

\* `if not self.access_token: self.access_token = self.get_oauth_token()`
TokenAfter(self, r_oauth) ==
    IF TruthyS(self.access_token) THEN self.access_token ELSE UPS_get_oauth_token(r_oauth)
\* A token request before every call, whether or not a token is held.
OAuthCalls_always(self) == <<"oauth">>
OAuthCalls(self) == IF TruthyS(self.access_token) THEN <<>> ELSE <<"oauth">>

\* self.parse_tracking_response(tracking_data) on a UPSApi: the class binds no
\* such name (its parser is parse_ups_tracking_response), so the call raises
\* AttributeError, which get_tracking_info's except clause turns into 'Error'.
UPS_on_200(self, tracking_data) ==
    IF HasAttr("UPSApi", "parse_tracking_response")
    THEN LET p == parse_ups_tracking_response(tracking_data)
         IN  standardize_response(tracking_data, p.status, p.last_update, p.location,
                                  p.address, p.delivery_estimate, "UPS")
    ELSE ErrorRecord("Error", "UPS")

\* get_tracking_info with the raw body returned beside 'API Error' on a status other than 200.
UPS_get_tracking_info_leaky(self, tracking_number, r_oauth, r_track) ==
    LET token == TokenAfter(self, r_oauth)
        self1 == [self EXCEPT !.access_token = token]
    IN  IF ~TruthyS(token) THEN Effect(self1, ErrorRecord("API Error", "UPS"), OAuthCalls(self))
        ELSE IF r_track.kind = "http" /\ r_track.code = 200
        THEN Effect(self1, UPS_on_200(self1, r_track.body), OAuthCalls(self) \o <<"track">>)
        ELSE Effect(self1, [ErrorRecord("API Error", "UPS") EXCEPT !.tracking_data = r_track.body],
                    OAuthCalls(self) \o <<"track">>)

\* UPSApi.get_tracking_info
UPS_get_tracking_info(self, tracking_number, r_oauth, r_track) ==
    LET token == TokenAfter(self, r_oauth)
        self1 == [self EXCEPT !.access_token = token]
    IN  IF ~TruthyS(token)
        THEN Effect(self1, ErrorRecord("API Error", "UPS"), OAuthCalls(self))
        ELSE IF tracking_number = NoneStr   \* UPS_TRACK_URL + None raises TypeError
        THEN Effect(self1, ErrorRecord("Error", "UPS"), OAuthCalls(self))
        ELSE IF r_track.kind = "exception"  \* requests.get raised
        THEN Effect(self1, ErrorRecord("Error", "UPS"), OAuthCalls(self) \o <<"track">>)
        ELSE IF r_track.code /= 200
        THEN Effect(self1, ErrorRecord("API Error", "UPS"), OAuthCalls(self) \o <<"track">>)
        ELSE IF r_track.kind = "bad_json"   \* response.json() raised
        THEN Effect(self1, ErrorRecord("Error", "UPS"), OAuthCalls(self) \o <<"track">>)
        ELSE Effect(self1, UPS_on_200(self1, r_track.body), OAuthCalls(self) \o <<"track">>)

\* address.get(key) is truthy for one of postal_code, city, state
HasAddressInfo(address) ==
    \E key \in {"postal_code", "city", "state"} : TruthyS(Get(address, key, None))

\* The body of a 200 answer of the address-validation endpoint.
ValidationData == [XAVResponse |-> [Response |-> "Success"]]

\* The body of a 200 answer of the transit-time endpoint.
TransitData == [emsResponse |-> [services |-> <<[businessTransitDays |-> "3"]>>]]

\* The first `def validate_address` of the UPSApi class body (the XAV request).
UPS_validate_address_first(self, address, r_oauth, r_http) ==
    LET token == TokenAfter(self, r_oauth)
        self1 == [self EXCEPT !.access_token = token]
    IN  IF ~TruthyS(token) THEN Effect(self1, NoneDict, OAuthCalls(self))
        ELSE IF ~HasAddressInfo(address) THEN Effect(self1, NoneDict, OAuthCalls(self))
        ELSE IF r_http.kind = "http" /\ r_http.code = 200
        THEN Effect(self1, ValidationData, OAuthCalls(self) \o <<"address">>)
        ELSE Effect(self1, NoneDict, OAuthCalls(self) \o <<"address">>)

\* UPSApi.validate_address: the class body binds the name a second time, to the
\* placeholder, and that binding is the method.
UPS_validate_address(self, address, r_oauth, r_http) == Effect(self, NoneDict, <<>>)

\* UPSApi.get_estimated_delivery: likewise bound a second time, to the placeholder.
UPS_get_estimated_delivery(self, origin, destination, r_oauth, r_http) ==
    Effect(self, NoneDict, <<>>)

(***************************************************************************)
(* DHLApi                                                                  *)
(***************************************************************************)
DigitChar(n) ==
    CASE n = 0 -> "0" [] n = 1 -> "1" [] n = 2 -> "2" [] n = 3 -> "3" [] n = 4 -> "4"
      [] n = 5 -> "5" [] n = 6 -> "6" [] n = 7 -> "7" [] n = 8 -> "8" [] n = 9 -> "9"
\* %d, %m, %H, %I, %M, %S: two digits
Two(n) == <<DigitChar(n \div 10), DigitChar(n % 10)>>
\* %Y
Four(n) == Two(n \div 100) \o Two(n % 100)

IsLeap(y) == (y % 4 = 0 /\ y % 100 /= 0) \/ y % 400 = 0
DaysInMonth(y, m) ==
    IF m = 2 THEN (IF IsLeap(y) THEN 29 ELSE 28)
    ELSE IF m \in {4, 6, 9, 11} THEN 30 ELSE 31

\* now + timedelta(days=n), for n below a month
AddDays(t, n) ==
    LET dim == DaysInMonth(t.year, t.month)
    IN  IF t.day + n <= dim THEN [t EXCEPT !.day = t.day + n]
        ELSE IF t.month < 12 THEN [t EXCEPT !.day = t.day + n - dim, !.month = t.month + 1]
        ELSE [t EXCEPT !.day = t.day + n - dim, !.month = 1, !.year = t.year + 1]

\* strftime("%Y-%m-%dT%H:%M:%S")
IsoFormat(t) ==
    Four(t.year) \o <<"-">> \o Two(t.month) \o <<"-">> \o Two(t.day) \o <<"T">>
    \o Two(t.hour) \o <<":">> \o Two(t.minute) \o <<":">> \o Two(t.second)

IsDateChars(s) ==
    /\ Len(s) >= 10
    /\ AllIn(s, 1, 4, Digits10) /\ s[5] = "-" /\ AllIn(s, 6, 2, Digits10)
    /\ s[8] = "-" /\ AllIn(s, 9, 2, Digits10)
IsTimeChars(s) ==
    /\ s[11] = "T" /\ AllIn(s, 12, 2, Digits10) /\ s[14] = ":" /\ AllIn(s, 15, 2, Digits10)
    /\ s[17] = ":" /\ AllIn(s, 18, 2, Digits10)

\* datetime.fromisoformat(s) for the forms YYYY-MM-DD and YYYY-MM-DDTHH:MM:SS;
\* ok is FALSE where it raises ValueError.
fromisoformat(s) ==
    LET shaped == IsDateChars(s) /\ (Len(s) = 10 \/ (Len(s) = 19 /\ IsTimeChars(s)))
        t == [year |-> int(SubSeq(s, 1, 4)), month |-> int(SubSeq(s, 6, 7)),
              day |-> int(SubSeq(s, 9, 10)),
              hour |-> IF Len(s) = 19 THEN int(SubSeq(s, 12, 13)) ELSE 0,
              minute |-> IF Len(s) = 19 THEN int(SubSeq(s, 15, 16)) ELSE 0,
              second |-> IF Len(s) = 19 THEN int(SubSeq(s, 18, 19)) ELSE 0]
    IN  IF shaped /\ t.year >= 1 /\ t.month \in 1..12 /\ t.day \in 1..DaysInMonth(t.year, t.month)
           /\ t.hour < 24 /\ t.minute < 60 /\ t.second < 60
        THEN [ok |-> TRUE, value |-> t]
        ELSE [ok |-> FALSE]

\* date_str.replace('Z', '+00:00') followed by the parse: a final Z is a UTC offset.
DropZ(s) == IF Len(s) = 20 /\ s[20] = "Z" THEN SubSeq(s, 1, 19) ELSE s

\* strftime("%B %d, %Y at %I:%M %p")
HumanFormat(t) ==
    LET h == t.hour % 12
    IN  month_names[t.month] \o " " \o Str(Two(t.day)) \o ", " \o Str(Four(t.year)) \o " at "
        \o Str(Two(IF h = 0 THEN 12 ELSE h)) \o ":" \o Str(Two(t.minute)) \o " "
        \o (IF t.hour < 12 THEN "AM" ELSE "PM")

\* DHLApi.format_api_date
DHL_format_api_date(date_str) ==
    IF date_str = NoneStr \/ date_str = <<>> THEN "Unknown"
    ELSE LET dt == fromisoformat(DropZ(date_str))
         IN  IF dt.ok THEN HumanFormat(dt.value) ELSE Str(date_str)

dhl_statuses == <<"Shipment picked up", "Processed at DHL Location", "Departed Facility",
                  "In Transit", "Arrived at Delivery Facility", "With Delivery Courier",
                  "Delivered">>
dhl_cities == <<"Berlin", "Frankfurt", "London", "Paris", "Madrid", "Rome", "Amsterdam">>
dhl_countries == <<"Germany", "Germany", "United Kingdom", "France", "Spain", "Italy",
                   "Netherlands">>
dhl_country_codes == <<"DE", "DE", "GB", "FR", "ES", "IT", "NL">>

Min(a, b) == IF a <= b THEN a ELSE b

\* DHLApi._get_dhl_mock_data; rnd holds what random.randint and datetime.now gave.
DHL_get_dhl_mock_data(tracking_number, rnd) ==
    LET delivery_days == rnd.delivery_days
        status == IF delivery_days <= 0 THEN "Delivered"
                  ELSE IF delivery_days = 1 THEN "With Delivery Courier"
                  ELSE dhl_statuses[Min(6 - delivery_days, 5) + 1]
        last_update == IsoFormat(rnd.now)
        expected_delivery == IsoFormat(AddDays(rnd.now, delivery_days))
        k == rnd.location_index + 1
        status_info == [timestamp |-> last_update,
                        statusCode |-> IF status = "Delivered" THEN "delivered" ELSE "transit",
                        status |-> status, description |-> status]
    IN  [shipments |-> <<
            [id |-> tracking_number, service |-> "express",
             origin |-> [address |-> [city |-> "Leipzig", country |-> "Germany", countryCode |-> "DE"]],
             destination |-> [address |-> [city |-> dhl_cities[k], country |-> dhl_countries[k],
                                           countryCode |-> dhl_country_codes[k]]],
             status |-> status_info,
             estimatedDeliveryTimeframe |-> [estimatedFrom |-> expected_delivery,
                                             estimatedThrough |-> expected_delivery],
             events |-> <<status_info @@ [location |-> [city |-> dhl_cities[k],
                                                        country |-> dhl_countries[k],
                                                        countryCode |-> dhl_country_codes[k]]]>>] >>]

\* A .get on None raises AttributeError: the shipment, its status, its first
\* event or that event's location is null.
DHL_get_raises(shipment) ==
    \/ shipment = NoneDict
    \/ Get(shipment, "status", EmptyDict) = NoneDict
    \/ /\ Get(shipment, "events", <<>>) /= <<>>
       /\ \/ Get(shipment, "events", <<>>)[1] = NoneDict
          \/ Get(Get(shipment, "events", <<>>)[1], "location", EmptyDict) = NoneDict

\* parse_tracking_response without the try/except: an exception leaves it.
DHL_parse_tracking_response_unguarded(tracking_data) ==
    IF ~TruthyDict(tracking_data) \/ ~Has(tracking_data, "shipments")
       \/ tracking_data["shipments"] = <<>>
    THEN [AllNone EXCEPT !.failed = FALSE]
    ELSE IF DHL_get_raises(tracking_data["shipments"][1]) THEN [raised |-> TRUE]
    ELSE [AllNone EXCEPT !.failed = FALSE, !.status = "Unknown"]

\* DHLApi.parse_tracking_response
DHL_parse_tracking_response(tracking_data) ==
    IF ~TruthyDict(tracking_data) \/ ~Has(tracking_data, "shipments")
       \/ tracking_data["shipments"] = <<>>
    THEN [AllNone EXCEPT !.failed = FALSE]
    ELSE IF DHL_get_raises(tracking_data["shipments"][1]) THEN AllNone
    ELSE LET shipment == tracking_data["shipments"][1]
             status_info == Get(shipment, "status", EmptyDict)
             status == Get(status_info, "description", "Unknown")
             last_update == DHL_format_api_date(Get(status_info, "timestamp", <<>>))
             events == Get(shipment, "events", <<>>)
             location_info == IF events /= <<>> THEN Get(events[1], "location", EmptyDict)
                              ELSE EmptyDict
             city == Get(location_info, "city", "")
             country == Get(location_info, "country", "")
             country_code == Get(location_info, "countryCode", "")
             joined == JoinNonEmpty(<<city, country>>)
             location == IF joined /= "" THEN joined ELSE "Unknown"
             est_timeframe == Get(shipment, "estimatedDeliveryTimeframe", EmptyDict)
             est_date == IF TruthyDict(est_timeframe)
                         THEN Get(est_timeframe, "estimatedThrough", <<>>) ELSE <<>>
         IN  [status |-> status, last_update |-> last_update, location |-> location,
              address |-> [city |-> city, country |-> country, country_code |-> country_code],
              delivery_estimate |-> IF est_date /= <<>> /\ est_date /= NoneStr
                                    THEN DHL_format_api_date(est_date) ELSE None,
              failed |-> FALSE]

\* DHLApi.get_tracking_info, from the parse of the tracking data on
DHL_parsed(self, tracking_data) ==
    Only({Effect(self, standardize_response(tracking_data, p.status, p.last_update, p.location,
                                            p.address, p.delivery_estimate, "DHL"), <<>>) :
            p \in {DHL_parse_tracking_response(tracking_data)}})

\* DHLApi.get_tracking_info
DHL_get_tracking_info(self, tracking_number, rnd) ==
    IF ~self.configured
    THEN Effect(self, ErrorRecord("API Not Configured", "DHL"), <<>>)
    ELSE Only({DHL_parsed(self, tracking_data) :
                 tracking_data \in {DHL_get_dhl_mock_data(tracking_number, rnd)}})

\* DHLApi.validate_address and DHLApi.get_estimated_delivery: placeholders.
DHL_validate_address(self, address) == Effect(self, NoneDict, <<>>)
DHL_get_estimated_delivery(self, origin, destination) == Effect(self, NoneDict, <<>>)

(***************************************************************************)
(* USPSApi                                                                 *)
(***************************************************************************)
\* USPSApi.get_tracking_info: with a user id the call reaches
\* self.parse_tracking_response, which no class of USPSApi's binds.
USPS_get_tracking_info(self, tracking_number) ==
    IF ~self.configured THEN Effect(self, ErrorRecord("API Not Configured", "USPS"), <<>>)
    ELSE IF HasAttr("USPSApi", "parse_tracking_response")
    THEN Effect(self, standardize_response(NoneDict, None, None, None, NoneDict, None, "USPS"), <<>>)
    ELSE Effect(self, ErrorRecord("Error", "USPS"), <<>>)

(***************************************************************************)
(* The adapter factory                                                     *)
(***************************************************************************)
\* No adapter: what create_carrier_api returns for a carrier without a class.
NoAdapter == [cls |-> "None", access_token |-> None, configured |-> FALSE]

\* An instance that starts out holding a token, as one kept from an earlier row would.
NewInstance_holding_token(cls, env) ==
    [cls |-> cls, access_token |-> "tok",
     configured |-> CASE cls = "UPSApi" -> env.ups [] cls = "USPSApi" -> env.usps
                      [] cls = "DHLApi" -> env.dhl]

\* cls(): __init__ reads the credentials from the environment.
NewInstance(cls, env) ==
    [cls |-> cls, access_token |-> None,
     configured |-> CASE cls = "UPSApi" -> env.ups [] cls = "USPSApi" -> env.usps
                      [] cls = "DHLApi" -> env.dhl]

carrier_apis(carrier_name) ==
    CASE carrier_name = "UPS" -> "UPSApi"
      [] carrier_name = "USPS" -> "USPSApi"
      [] carrier_name = "DHL" -> "DHLApi"
      [] OTHER -> "None"

\* The carrier name taken for what the factory was given, left as it is
\* when it is absent or UNKNOWN.
ResolvedCarrier_no_default(carrier_name, tracking_number) ==
    IF ~TruthyS(carrier_name) /\ ~IsFalsyStr(tracking_number)
    THEN detect_carrier(tracking_number) ELSE carrier_name

\* The carrier name create_carrier_api looks up: the name given, else the one
\* detected from the number, and 'UPS' when that is absent or UNKNOWN.
ResolvedCarrier(carrier_name, tracking_number) ==
    LET name1 == IF ~TruthyS(carrier_name) /\ ~IsFalsyStr(tracking_number)
                 THEN detect_carrier(tracking_number) ELSE carrier_name
    IN  IF ~TruthyS(name1) \/ name1 = "UNKNOWN" THEN "UPS" ELSE name1

\* create_carrier_api: the adapter is in `self`; raised when api_class() raises.
create_carrier_api(carrier_name, tracking_number, env) ==
    LET api_class == carrier_apis(ResolvedCarrier(carrier_name, tracking_number))
    IN  IF api_class = "None" THEN Effect(NoAdapter, NoneDict, <<>>)
        ELSE IF ~CanInstantiate(api_class)
        THEN [Effect(NoAdapter, NoneDict, <<>>) EXCEPT !.raised = TRUE]
        ELSE Effect(NewInstance(api_class, env), NoneDict, <<>>)

(***************************************************************************)
(* The classifier's inputs: optional padding, a prefix, a run of one       *)
(* repeated character (optionally grouped 4-4-rest by a separator), a      *)
(* suffix.                                                                 *)
(***************************************************************************)
MaxRun == 23

Pads == {<<<<>>, <<>>>>, <<<<" ">>, <<" ", " ">>>>, <<<<"\t">>, <<"\n">>>>}
Prefixes == {<<>>, <<"1", "Z">>, <<"1", "z">>, <<"T">>, <<"H">>, <<"R">>, <<"R", "A">>,
             <<"A", "A">>, <<"E", "A">>, <<"J", "D">>, <<"9">>, <<"1">>}
Fillers == {"0", "9", "A", UniDigit}
Separators == {<<>>, <<" ">>, <<"-">>}
Suffixes == {<<>>, <<"U", "S">>, <<"u", "s">>, <<"S">>}

Run(c, n) == [i \in 1..n |-> c]

\* n copies of c, with sep after the fourth and after the eighth of them.
Grouped(c, n, sep) ==
    IF n <= 4 THEN Run(c, n)
    ELSE IF n <= 8 THEN Run(c, 4) \o sep \o Run(c, n - 4)
    ELSE Run(c, 4) \o sep \o Run(c, 4) \o sep \o Run(c, n - 8)

DetInputs ==
    {NoneStr} \cup
    { pad[1] \o pre \o Grouped(c, n, sep) \o suf \o pad[2] :
        pad \in Pads, pre \in Prefixes, c \in Fillers, n \in 0..MaxRun,
        sep \in Separators, suf \in Suffixes }

(***************************************************************************)
(* The UPS payloads handed to the parser: a shape down to the first        *)
(* activity, and for a full payload a variant of each part the parser      *)
(* reads.                                                                  *)
(***************************************************************************)
Shapes == {"none", "empty", "no_track", "no_shipments", "no_packages", "no_activities", "full"}
StatusKeys == {"absent", "null", "delivered", "sched2", "sched4", "sched_nodate",
               "date_nophrase", "sched_m13"}
DeliveryDateKeys == {"absent", "empty", "one", "second", "blank", "text"}
DeliveryTimeKeys == {"absent", "empty", "edw", "edw_start", "edw_end", "cmt", "cmt_start",
                     "other", "notype"}
ActivityKeys == {"full", "bare"}
ShipToKeys == {"absent", "list", "str"}

StatusText(k) ==
    CASE k = "null" -> NoneStr
      [] k = "delivered" -> <<"Delivered">>
      [] k = "sched2" -> <<"Scheduled Delivery", " ", "0", "4", "/", "1", "8", "/", "2", "5">>
      [] k = "sched4" -> <<"SCHEDULED DELIVERY", " ", "4", "/", "8", "/", "2", "0", "2", "5">>
      [] k = "sched_nodate" -> <<"Scheduled Delivery">>
      [] k = "date_nophrase" -> <<"Out For Delivery", " ", "0", "4", "/", "1", "8", "/", "2", "5">>
      [] k = "sched_m13" -> <<"Scheduled Delivery", " ", "1", "3", "/", "1", "8", "/", "2", "5">>

DeliveryDateList(k) ==
    CASE k = "empty" -> <<>>
      [] k = "one" -> <<[type |-> "SDD", date |-> <<"2", "0", "2", "5", "0", "4", "2", "0">>]>>
      [] k = "second" -> <<[type |-> "RDD"],
                           [type |-> "SDD", date |-> <<"2", "0", "2", "5", "0", "4", "2", "1">>]>>
      [] k = "blank" -> <<[type |-> "SDD", date |-> <<>>]>>
      [] k = "text" -> <<[type |-> "SDD", date |-> <<"T", "B", "D">>]>>

T0900 == <<"0", "9", "0", "0", "0", "0">>
T1300 == <<"1", "3", "0", "0", "0", "0">>
T1700 == <<"1", "7", "0", "0", "0", "0">>
DeliveryTimeObj(k) ==
    CASE k = "empty" -> EmptyDict
      [] k = "edw" -> [type |-> "EDW", startTime |-> T0900, endTime |-> T1300]
      [] k = "edw_start" -> [type |-> "EDW", startTime |-> T0900]
      [] k = "edw_end" -> [type |-> "EDW", endTime |-> T1300]
      [] k = "cmt" -> [type |-> "CMT", endTime |-> T1700]
      [] k = "cmt_start" -> [type |-> "CMT", startTime |-> T0900]
      [] k = "other" -> [type |-> "XYZ", startTime |-> T0900, endTime |-> T1300]
      [] k = "notype" -> [startTime |-> T0900, endTime |-> T1300]

Field(present, key, value) == IF present THEN key :> value ELSE EmptyDict

ActivityOf(c) ==
    Field(c.st /= "absent", "status", [description |-> StatusText(c.st)])
    @@ (IF c.act = "full"
        THEN [date |-> <<"2", "0", "2", "5", "0", "4", "1", "8">>,
              time |-> <<"0", "9", "5", "1", "5", "8">>,
              location |-> [address |-> [city |-> "Austin", stateProvince |-> "TX",
                                         country |-> "US", postalCode |-> "78701"]]]
        ELSE EmptyDict)

PackageOf(c) ==
    [activity |-> <<ActivityOf(c)>>]
    @@ Field(c.dd /= "absent", "deliveryDate", DeliveryDateList(c.dd))
    @@ Field(c.dt /= "absent", "deliveryTime", DeliveryTimeObj(c.dt))

ShipmentOf(c) ==
    [package |-> <<PackageOf(c)>>]
    @@ Field(c.ship = "list", "shipTo",
             [address |-> [addressLine |-> [kind |-> "list", items |-> <<"1 Main St", "Apt 2">>]]])
    @@ Field(c.ship = "str", "shipTo",
             [address |-> [addressLine |-> [kind |-> "str", value |-> "9 Elm"]]])

PayloadOf(c) ==
    CASE c.shape = "none" -> NoneDict
      [] c.shape = "empty" -> EmptyDict
      [] c.shape = "no_track" -> [trackResponse |-> EmptyDict]
      [] c.shape = "no_shipments" -> [trackResponse |-> [shipment |-> <<>>]]
      [] c.shape = "no_packages" -> [trackResponse |-> [shipment |-> <<[package |-> <<>>]>>]]
      [] c.shape = "no_activities" ->
            [trackResponse |-> [shipment |-> <<[package |-> <<[activity |-> <<>>]>>]>>]]
      [] c.shape = "full" -> [trackResponse |-> [shipment |-> <<ShipmentOf(c)>>]]

DhlStamp == [year |-> 2025, month |-> 4, day |-> 18, hour |-> 9, minute |-> 51, second |-> 58]

\* The DHL payloads handed to the DHL parser: a shape down to the first
\* shipment, and for a full payload a variant of its status, events and
\* delivery timeframe.
DhlStatusOf(k) ==
    CASE k = "absent" -> EmptyDict
      [] k = "null" -> [status |-> NoneDict]
      [] k = "nodesc" -> [status |-> [timestamp |-> <<"a", "b", "c">>]]
      [] k = "nulldesc" -> [status |-> [timestamp |-> NoneStr, description |-> None]]
      [] k = "full" -> [status |-> [timestamp |-> IsoFormat(DhlStamp),
                                    description |-> "Departed Facility"]]
DhlEventsOf(k) ==
    CASE k = "absent" -> EmptyDict
      [] k = "empty" -> [events |-> <<>>]
      [] k = "null" -> [events |-> <<NoneDict>>]
      [] k = "noloc" -> [events |-> <<[description |-> "Departed Facility"]>>]
      [] k = "nullloc" -> [events |-> <<[location |-> NoneDict]>>]
      [] k = "full" -> [events |-> <<[location |-> [city |-> "Berlin", country |-> "Germany",
                                                    countryCode |-> "DE"]]>>]
DhlTimeframeOf(k) ==
    CASE k = "absent" -> EmptyDict
      [] k = "null" -> [estimatedDeliveryTimeframe |-> NoneDict]
      [] k = "empty" -> [estimatedDeliveryTimeframe |-> EmptyDict]
      [] k = "blank" -> [estimatedDeliveryTimeframe |-> [estimatedThrough |-> <<>>]]
      [] k = "bad" -> [estimatedDeliveryTimeframe |-> [estimatedThrough |-> <<"a", "b", "c">>]]
      [] k = "full" -> [estimatedDeliveryTimeframe |->
                            [estimatedThrough |-> IsoFormat(AddDays(DhlStamp, 3))]]
DhlPayloadOf(c) ==
    CASE c.shape = "none" -> NoneDict
      [] c.shape = "empty" -> EmptyDict
      [] c.shape = "no_key" -> [requestId |-> "r1"]
      [] c.shape = "no_shipments" -> [shipments |-> <<>>]
      [] c.shape = "null_shipment" -> [shipments |-> <<NoneDict>>]
      [] c.shape = "full" ->
            [shipments |-> <<[id |-> "1111111111"] @@ DhlStatusOf(c.st) @@ DhlEventsOf(c.ev)
                             @@ DhlTimeframeOf(c.tf)>>]
DhlPlain == [parser |-> "DHL", shape |-> "full", st |-> "full", ev |-> "full", tf |-> "full"]
DhlCases ==
    {[DhlPlain EXCEPT !.shape = sh] :
        sh \in {"none", "empty", "no_key", "no_shipments", "null_shipment"}}
    \cup [parser : {"DHL"}, shape : {"full"}, st : {"absent", "null", "nodesc", "nulldesc", "full"},
          ev : {"absent", "empty", "null", "noloc", "nullloc", "full"},
          tf : {"absent", "null", "empty", "blank", "bad", "full"}]

PlainCase == [shape |-> "full", st |-> "delivered", dd |-> "absent", dt |-> "absent",
              act |-> "full", ship |-> "absent"]
ParCases ==
    {[PlainCase EXCEPT !.shape = sh] : sh \in Shapes}
    \cup [shape : {"full"}, st : StatusKeys, dd : DeliveryDateKeys, dt : DeliveryTimeKeys,
          act : ActivityKeys, ship : ShipToKeys]

(***************************************************************************)
(* Specifications                                                          *)
(***************************************************************************)
DetIdle == det_input = NoneStr /\ det_result = "-" /\ det_pc = "idle"
ParIdle == par_case = PlainCase /\ par_input = NoneDict /\ par_result = AllNone /\ par_pc = "idle"
ApiIdle ==
    /\ api_env = [ups |-> FALSE, usps |-> FALSE, dhl |-> FALSE]
    /\ api_self = NoAdapter /\ api_pc = "idle" /\ api_op = [name |-> "-"]
    /\ api_ret = NoneDict /\ api_raised = FALSE /\ api_calls = <<>> /\ api_n = 0
BatIdle ==
    /\ bat_env = [ups |-> FALSE, usps |-> FALSE, dhl |-> FALSE, origin_zip |-> ""]
    /\ bat_sheet = <<>> /\ bat_values = <<>> /\ bat_pc = "idle" /\ bat_i = 0
    /\ bat_done = <<>> /\ bat_end = "-"
ModIdle == mod_calls = <<>>
FmtIdle == fmt_op = [name |-> "-"] /\ fmt_ret = None
SeedIdle ==
    /\ seed_before = <<>> /\ seed_col = <<>> /\ seed_numbers = <<>> /\ seed_writes = <<>>
    /\ seed_ret = 0 /\ seed_pc = "idle"

DetInit ==
    /\ det_input \in DetInputs
    /\ det_result = "-"
    /\ det_pc = "call"
    /\ ParIdle /\ ApiIdle /\ BatIdle /\ ModIdle /\ FmtIdle /\ SeedIdle

\* carrier = detect_carrier(num)
Detect ==
    /\ det_pc = "call"
    /\ det_result' = detect_carrier(det_input)
    /\ det_pc' = "done"
    /\ UNCHANGED <<det_input, parVars, apiVars, batVars, modVars, fmtVars, seedVars>>

DetNext == Detect

SpecDetect == DetInit /\ [][DetNext]_vars

ParInit ==
    /\ par_case \in ParCases \cup DhlCases
    /\ par_input = (IF par_case \in DhlCases THEN DhlPayloadOf(par_case) ELSE PayloadOf(par_case))
    /\ par_result = AllNone
    /\ par_pc = "call"
    /\ DetIdle /\ ApiIdle /\ BatIdle /\ ModIdle /\ FmtIdle /\ SeedIdle

\* status, last_update, location, address_dict, delivery_estimate = parse(tracking_data)
Parse ==
    /\ par_pc = "call" /\ par_case \in ParCases
    /\ par_result' = parse_ups_tracking_response(par_input)
    /\ par_pc' = "done"
    /\ UNCHANGED <<par_case, par_input, detVars, apiVars, batVars, modVars, fmtVars, seedVars>>

\* The same call on a DHLApi: self.parse_tracking_response(tracking_data)
ParseDHL ==
    /\ par_pc = "call" /\ par_case \in DhlCases
    /\ par_result' = DHL_parse_tracking_response(par_input)
    /\ par_pc' = "done_dhl"
    /\ UNCHANGED <<par_case, par_input, detVars, apiVars, batVars, modVars, fmtVars, seedVars>>

ParNext == Parse \/ ParseDHL

SpecParse == ParInit /\ [][ParNext]_vars

(***************************************************************************)
(* The functions of carrier_detector, called one after another             *)
(***************************************************************************)
MaxLog == 2

\* test_numbers of the self-test run by `python carrier_detector.py`
test_numbers == <<
    <<"1", "Z", "9", "9", "9", "A", "A", "1", "X", "1", "2", "3", "4", "5", "6", "7", "8", "9">>,
    <<"9", "4", "0", "0", "1", "2", "3", "4", "5", "6", "7", "8", "9", "1", "2", "3", "4", "5", "6", "7", "8", "9">>,
    <<"1", "2", "3", "4", "5", "6", "7", "8", "9", "0">>,
    <<"I", "N", "V", "A", "L", "I", "D", "1", "2", "3">>,
    <<"R", "A", "1", "2", "3", "4", "5", "6", "7", "8", "9">>,
    <<"A", "A", "1", "2", "3", "4", "5", "6", "7", "8", "9", "U", "S">>,
    <<"J", "D", "1", "2", "3", "4", "5", "6", "7", "8", "9", "0", "1", "2", "3", "4", "5", "6", "7", "8">> >>

\* Strings around the lengths and prefixes the formatter and the rules tell
\* apart, and the self-test's samples.
ModInputs ==
    {NoneStr, <<>>} \cup {test_numbers[k] : k \in DOMAIN test_numbers} \cup
    { pad[1] \o pre \o Grouped(c, n, sep) \o suf \o pad[2] :
        pad \in {<<<<>>, <<>>>>, <<<<" ">>, <<" ", "\n">>>>},
        pre \in {<<>>, <<"1", "z">>, <<"J", "D">>, <<"a", "a">>},
        c \in {"1", UniDigit}, n \in {9, 10, 11, 16, 18},
        sep \in {<<>>, <<" ">>}, suf \in {<<>>, <<"u", "s">>} }

\* What a later call is given: the first call's string again, that string
\* trimmed, uppercased and without spaces, or another string.
ArgsAfter(log) ==
    IF log = <<>> THEN ModInputs
    ELSE {log[1].arg, replace_space(upper(strip(log[1].arg))), Run("1", 10)}
CarriersAfter(log) == IF log = <<>> THEN {None, "", "UPS", "DHL"} ELSE {None}

ModInit ==
    /\ mod_calls = <<>>
    /\ DetIdle /\ ParIdle /\ ApiIdle /\ BatIdle /\ FmtIdle /\ SeedIdle

\* carrier = detect_carrier(num)
DetectCall ==
    /\ Len(mod_calls) < MaxLog
    /\ \E num \in ArgsAfter(mod_calls) :
         mod_calls' = Append(mod_calls, [name |-> "detect_carrier", arg |-> num,
                                         carrier |-> None, ret |-> detect_carrier(num)])
    /\ UNCHANGED <<detVars, parVars, apiVars, batVars, fmtVars, seedVars>>

\* formatted = format_tracking_number(num, carrier)
FormatCall ==
    /\ Len(mod_calls) < MaxLog
    /\ \E num \in ArgsAfter(mod_calls), carrier \in CarriersAfter(mod_calls) :
         mod_calls' = Append(mod_calls, [name |-> "format_tracking_number", arg |-> num,
                                         carrier |-> carrier,
                                         ret |-> format_tracking_number(num, carrier)])
    /\ UNCHANGED <<detVars, parVars, apiVars, batVars, fmtVars, seedVars>>

\* valid = validate_tracking_number(num)
ValidateCall ==
    /\ Len(mod_calls) < MaxLog
    /\ \E num \in ArgsAfter(mod_calls) :
         mod_calls' = Append(mod_calls, [name |-> "validate_tracking_number", arg |-> num,
                                         carrier |-> None,
                                         ret |-> validate_tracking_number(num)])
    /\ UNCHANGED <<detVars, parVars, apiVars, batVars, fmtVars, seedVars>>

ModNext == DetectCall \/ FormatCall \/ ValidateCall

SpecModule == ModInit /\ [][ModNext]_vars

(***************************************************************************)
(* The adapters' date and time formatters, each called on a string         *)
(***************************************************************************)
\* Two characters where a month, a day or an hour is expected.
Pairs == {<<a, b>> : a \in {"0", "1", "2", "3", UniDigit, SupDigit, "x"},
                    b \in {"0", "1", "2", "3", "4", "8", "9"}}
Tails == {<<>>, <<"1">>, <<"T">>}
ShortInputs == {NoneStr, <<>>, <<"a", "b", "c">>, <<"2", "0", "2", "5", "0", "4", "1">>,
                <<"0", "9", "5", "1", "5">>}
UpsDates ==
    ShortInputs \cup
    {y \o m \o d \o tail : y \in {<<"2", "0", "2", "5">>, <<"0", "0", "9", UniDigit>>},
                            m \in Pairs, d \in Pairs, tail \in Tails}
UpsTimes ==
    ShortInputs \cup
    {h \o m \o sec \o tail : h \in Pairs \cup {Two(n) : n \in 0..24},
                              m \in {<<"0", "0">>, <<"5", "1">>, <<"0", "x">>},
                              sec \in {<<"0", "0">>, <<"5", "8">>}, tail \in Tails}
\* ISO-8601 timestamps, with and without time and Z, and strings that are none.
DhlTimes ==
    {[year |-> 2025, month |-> mo, day |-> d, hour |-> h, minute |-> mi, second |-> 58] :
        mo \in {2, 4, 12, 13}, d \in {0, 8, 18, 29, 31}, h \in {0, 9, 12, 13, 23, 24},
        mi \in {5, 51, 60}}
DhlDates ==
    {NoneStr, <<>>, <<"a", "b", "c">>, <<"1", "8", "/", "0", "4", "/", "2", "0", "2", "5">>}
    \cup {IsoFormat(t) \o z : t \in DhlTimes, z \in {<<>>, <<"Z">>, <<"z">>}}
    \cup {SubSeq(IsoFormat(t), 1, 10) : t \in DhlTimes}

FmtInit ==
    /\ fmt_op = [name |-> "new"] /\ fmt_ret = None
    /\ DetIdle /\ ParIdle /\ ApiIdle /\ BatIdle /\ ModIdle /\ SeedIdle

Formatted(name, arg, ret) ==
    /\ fmt_op' = [name |-> name, arg |-> arg]
    /\ fmt_ret' = ret
    /\ UNCHANGED <<detVars, parVars, apiVars, batVars, modVars, seedVars>>

\* self.format_api_date(date) on a UPSApi
UpsFormatDate ==
    /\ fmt_op.name = "new"
    /\ \E date_str \in UpsDates :
         Formatted("UPSApi.format_api_date", date_str, UPS_format_api_date(date_str))

\* self.format_api_time(time) on a UPSApi
UpsFormatTime ==
    /\ fmt_op.name = "new"
    /\ \E time_str \in UpsTimes :
         Formatted("UPSApi.format_api_time", time_str, UPS_format_api_time(time_str))

\* self.format_api_date(timestamp) on a DHLApi
DhlFormatDate ==
    /\ fmt_op.name = "new"
    /\ \E date_str \in DhlDates :
         Formatted("DHLApi.format_api_date", date_str, DHL_format_api_date(date_str))

FmtNext == UpsFormatDate \/ UpsFormatTime \/ DhlFormatDate

SpecFormat == FmtInit /\ [][FmtNext]_vars

(***************************************************************************)
(* The adapters: an instance is made by the factory and then called        *)
(***************************************************************************)
MaxCalls == 2

Envs == [ups : BOOLEAN, usps : BOOLEAN, dhl : BOOLEAN]
CarrierNames == {None, "", "UPS", "USPS", "DHL", "FEDEX", "UNKNOWN"}
TrackingNumbers ==
    {NoneStr, <<"1", "Z">> \o Run("9", 16), <<"9">> \o Run("0", 21), Run("1", 10),
     <<"X">> \o Run("1", 3)}
\* The numbers an adapter is asked about.
AskedNumbers == {NoneStr, <<"1", "Z">> \o Run("9", 16)}
\* get_origin_address(): the warehouse address, from the environment or its default.
Origins == {[street |-> "", city |-> "", state |-> "", postal_code |-> "", country |-> "US"],
            [street |-> "9 Dock Rd", city |-> "Reno", state |-> "NV", postal_code |-> "89501",
             country |-> "US"]}

ErrorBody == [response |-> [errors |-> <<[code |-> "TW0001", message |-> "Invalid inquiry number"]>>]]
OkBodies ==
    {PayloadOf(c) : c \in {PlainCase, [PlainCase EXCEPT !.dd = "one", !.ship = "list"],
                           [PlainCase EXCEPT !.shape = "no_shipments"]}}
\* What the tracking and address endpoints can answer: the request raises, the
\* body is not JSON, or a status code with a body.
HttpAnswers(bodies) ==
    {[kind |-> "exception", code |-> 0, body |-> NoneDict],
     [kind |-> "bad_json", code |-> 200, body |-> NoneDict],
     [kind |-> "http", code |-> 404, body |-> ErrorBody]}
    \cup {[kind |-> "http", code |-> 200, body |-> b] : b \in bodies}
NoAnswer == [kind |-> "exception", code |-> 0, body |-> NoneDict]

\* The answers a token request can get: a token is granted only to credentials.
OAuthFor(env) == IF env.ups THEN OAuthAnswers ELSE OAuthAnswers \ {"token"}

Nows == {[year |-> 2025, month |-> 4, day |-> 18, hour |-> 9, minute |-> 51, second |-> 58],
         [year |-> 2024, month |-> 12, day |-> 29, hour |-> 0, minute |-> 5, second |-> 0]}
Randoms == [delivery_days : 1..5, location_index : {0, 6}, now : Nows]
NoRandom == [delivery_days |-> 1, location_index |-> 0, now |-> CHOOSE t \in Nows : t.year = 2025]

Addresses ==
    {EmptyDict,
     [postal_code |-> "78701"],
     [street |-> "1 Main St", city |-> "", state |-> "", postal_code |-> "78701", country |-> "US"],
     [street |-> "1 Main St", city |-> "", state |-> "", postal_code |-> "", country |-> "US"],
     [city |-> "Berlin", country |-> "Germany", country_code |-> "DE"],
     [city |-> "", country |-> "Germany", country_code |-> "DE"]}

\* carrier_api.get_tracking_info(tracking_number), on whichever class the instance has
get_tracking_info(self, tracking_number, r_oauth, r_track, rnd) ==
    CASE self.cls = "UPSApi" -> UPS_get_tracking_info(self, tracking_number, r_oauth, r_track)
      [] self.cls = "USPSApi" -> USPS_get_tracking_info(self, tracking_number)
      [] self.cls = "DHLApi" -> DHL_get_tracking_info(self, tracking_number, rnd)

\* carrier_api.validate_address(address)
validate_address(self, address, r_oauth, r_http) ==
    CASE self.cls = "UPSApi" -> UPS_validate_address(self, address, r_oauth, r_http)
      [] self.cls = "DHLApi" -> DHL_validate_address(self, address)

\* carrier_api.get_estimated_delivery(origin, destination)
get_estimated_delivery(self, origin, destination, r_oauth, r_http) ==
    CASE self.cls = "UPSApi" -> UPS_get_estimated_delivery(self, origin, destination, r_oauth, r_http)
      [] self.cls = "DHLApi" -> DHL_get_estimated_delivery(self, origin, destination)

ApiInit ==
    /\ api_env \in Envs
    /\ api_self = NoAdapter /\ api_pc = "new" /\ api_op = [name |-> "-"]
    /\ api_ret = NoneDict /\ api_raised = FALSE /\ api_calls = <<>> /\ api_n = 0
    /\ DetIdle /\ ParIdle /\ BatIdle /\ ModIdle /\ FmtIdle /\ SeedIdle

\* carrier_api = create_carrier_api(carrier_name, tracking_number)
Create ==
    /\ api_pc = "new"
    /\ \E carrier_name \in CarrierNames, tracking_number \in TrackingNumbers :
         LET e == create_carrier_api(carrier_name, tracking_number, api_env)
         IN  /\ api_op' = [name |-> "create_carrier_api", carrier_name |-> carrier_name,
                           tracking_number |-> tracking_number]
             /\ api_self' = e.self
             /\ api_raised' = e.raised
             /\ api_pc' = IF e.raised THEN "failed"
                          ELSE IF e.self = NoAdapter THEN "none" ELSE "ready"
    /\ api_ret' = NoneDict /\ api_calls' = <<>>
    /\ UNCHANGED <<api_env, api_n, detVars, parVars, batVars, modVars, fmtVars, seedVars>>

\* The state a call leaves: the instance, the result and the requests made.
Called(op, e) ==
    /\ api_op' = op
    /\ api_self' = e.self /\ api_ret' = e.ret /\ api_raised' = e.raised /\ api_calls' = e.calls
    /\ api_n' = api_n + 1
    /\ UNCHANGED <<api_env, api_pc, detVars, parVars, batVars, modVars, fmtVars, seedVars>>

\* track_result = carrier_api.get_tracking_info(tracking_number)
GetTrackingInfo ==
    /\ api_pc = "ready" /\ api_n < MaxCalls
    /\ \E tracking_number \in AskedNumbers :
         \/ /\ api_self.cls = "UPSApi"
            /\ \E r_oauth \in OAuthFor(api_env), r_track \in HttpAnswers(OkBodies) :
                 Called([name |-> "get_tracking_info", tracking_number |-> tracking_number,
                         self |-> api_self, r_oauth |-> r_oauth, r_http |-> r_track],
                        get_tracking_info(api_self, tracking_number, r_oauth, r_track, NoRandom))
         \/ /\ api_self.cls /= "UPSApi"
            /\ \E rnd \in Randoms :
                 Called([name |-> "get_tracking_info", tracking_number |-> tracking_number,
                         self |-> api_self, rnd |-> rnd],
                        get_tracking_info(api_self, tracking_number, "exception", NoAnswer, rnd))

\* validation_data = carrier_api.validate_address(address_dict)
ValidateAddress ==
    /\ api_pc = "ready" /\ api_n < MaxCalls
    /\ \E address \in Addresses, r_oauth \in OAuthFor(api_env),
          r_http \in {a \in HttpAnswers({ValidationData}) : a.kind /= "bad_json"} :
         Called([name |-> "validate_address", address |-> address, self |-> api_self,
                 r_oauth |-> r_oauth, r_http |-> r_http],
                validate_address(api_self, address, r_oauth, r_http))

\* time_data = carrier_api.get_estimated_delivery(origin_address, address_dict)
GetEstimatedDelivery ==
    /\ api_pc = "ready" /\ api_n < MaxCalls
    /\ \E origin \in Origins, destination \in {a \in Addresses : Has(a, "street")},
          r_oauth \in OAuthFor(api_env),
          r_http \in {NoAnswer, [kind |-> "http", code |-> 200, body |-> TransitData]} :
         Called([name |-> "get_estimated_delivery", origin |-> origin,
                 destination |-> destination, self |-> api_self,
                 r_oauth |-> r_oauth, r_http |-> r_http],
                get_estimated_delivery(api_self, origin, destination, r_oauth, r_http))

ApiNext == Create \/ GetTrackingInfo \/ ValidateAddress \/ GetEstimatedDelivery

SpecApi == ApiInit /\ [][ApiNext]_vars

(***************************************************************************)
(* The batch driver (multi_carrier_tracker.py)                             *)
(***************************************************************************)
MaxRows == 2

Columns == {"A", "B", "C", "D", "E", "F", "G"}
COLUMN_MAPPING ==
    [A |-> <<"Tracking Number">>, B |-> "Carrier", C |-> "Status", D |-> "Last Update",
     E |-> "Current Location", F |-> "Validated Address", G |-> "Estimated Delivery"]
\* A row of the sheet with tracking cell a and nothing in the other columns.
RowOf(a) == [A |-> a, B |-> "", C |-> "", D |-> "", E |-> "", F |-> "", G |-> ""]

\* get_origin_address()
get_origin_address(env) ==
    [street |-> "", city |-> "", state |-> "", postal_code |-> env.origin_zip, country |-> "US"]

\* any(address_dict.values())
AnyValue(d) == \E k \in DOMAIN d : TruthyS(d[k])

\* datetime.now().strftime("%Y-%m-%d %H:%M:%S") at the time of the run
current_time == "2025-04-18 09:51:58"

\* delivery[len("Estimated delivery: "):] when delivery starts with that prefix
EstimateTexts == {"new", "April 21, 2025"}
WithoutPrefix(delivery) ==
    IF \E x \in EstimateTexts : delivery = "Estimated delivery: " \o x
    THEN CHOOSE x \in EstimateTexts : delivery = "Estimated delivery: " \o x
    ELSE delivery

\* update_sheet_row sending an update for every field that data holds, empty or not.
SheetUpdates_present(row, data) ==
    {[range |-> [col |-> "B", row |-> row], value |-> data[k]] : k \in DOMAIN data \cap {"carrier"}}
    \cup {[range |-> [col |-> "C", row |-> row], value |-> data[k]] : k \in DOMAIN data \cap {"status"}}
    \cup {[range |-> [col |-> "G", row |-> row], value |-> data[k]] :
            k \in DOMAIN data \cap {"estimated_delivery"}}

\* update_sheet_row: the batch of updates it sends, one per field of data that
\* is present and truthy.
SheetUpdates(row, data) ==
    LET put(key, col, value) ==
            IF Has(data, key) /\ TruthyS(data[key])
            THEN {[range |-> [col |-> col, row |-> row], value |-> value]} ELSE {}
    IN  put("carrier", "B", Get(data, "carrier", None))
        \cup put("status", "C", Get(data, "status", None))
        \cup put("last_update", "D",
                 Get(data, "last_update", None) \o " (updated " \o current_time \o ")")
        \cup put("location", "E", Get(data, "location", None))
        \cup put("validated_address", "F", Get(data, "validated_address", None))
        \cup put("estimated_delivery", "G", WithoutPrefix(Get(data, "estimated_delivery", None)))

\* sheet.batch_update(updates)
batch_update(sheet, updates) ==
    [r \in DOMAIN sheet |->
        [c \in Columns |->
            IF \E u \in updates : u.range = [col |-> c, row |-> r]
            THEN (CHOOSE u \in updates : u.range = [col |-> c, row |-> r]).value
            ELSE sheet[r][c]]]

\* update_sheet_row(sheet, row, data): the sheet afterwards; a failing
\* batch_update is caught and logged.
update_sheet_row(sheet, row, data, write_ok) ==
    IF SheetUpdates(row, data) /= {} /\ write_ok
    THEN batch_update(sheet, SheetUpdates(row, data)) ELSE sheet

\* What process_tracking_number did: the calls it made in order, the update it
\* handed to update_sheet_row (NoneDict when it made none), whether an exception
\* was caught by its except clause, whether one left the function, and the
\* record get_tracking_info returned (NoneDict when it was not called).
Processed(outcome, calls, data, caught) ==
    [outcome |-> outcome, calls |-> calls, data |-> data, caught |-> caught, raised |-> FALSE,
     track |-> NoneDict]

\* The transit estimate asked for whatever the record and the addresses hold.
WantsEstimate_always(delivery_estimate, origin_address, address_dict) == TRUE

\* `if not delivery_estimate:` and, under it, `if origin_address.get('postal_code')
\* and address_dict.get('postal_code'):`
WantsEstimate(delivery_estimate, origin_address, address_dict) ==
    /\ ~TruthyS(delivery_estimate)
    /\ TruthyS(Get(origin_address, "postal_code", None))
    /\ TruthyS(Get(address_dict, "postal_code", None))

\* process_tracking_number from the return of get_tracking_info (t) on.
UpdateFrom(t, carrier, env, net) ==
    LET track_result == t.ret
        calls1 == <<"create_carrier_api", "get_tracking_info">> \o t.calls
        carrier_name == Get(track_result, "carrier", None)
        delivery_estimate == Get(track_result, "delivery_estimate", None)
        address_dict == Get(track_result, "address", NoneDict)
        base == [carrier |-> carrier_name, status |-> Get(track_result, "status", None),
                 last_update |-> Get(track_result, "last_update", None),
                 location |-> Get(track_result, "location", None)]
               @@ Field(TruthyS(delivery_estimate), "estimated_delivery", delivery_estimate)
    IN  IF track_result = NoneDict   \* `if not track_result`
        THEN Processed("no_result", calls1 \o <<"update_sheet_row">>,
                       [carrier |-> carrier, status |-> "API Error"], FALSE)
        ELSE IF ~(TruthyDict(address_dict) /\ AnyValue(address_dict))
        THEN Processed("updated", calls1 \o <<"update_sheet_row", "sleep">>, base, FALSE)
        ELSE LET v == validate_address(t.self, address_dict, net.r_oauth, net.r_http)
                 validated_address == IF v.ret /= NoneDict
                                      THEN "Address validated by " \o carrier_name
                                      ELSE "Address validation failed"
                 calls2 == calls1 \o <<"validate_address">> \o v.calls
                 with_address == [validated_address |-> validated_address] @@ base
                 origin_address == get_origin_address(env)
             IN  IF WantsEstimate(delivery_estimate, origin_address, address_dict)
                 THEN LET d == get_estimated_delivery(v.self, origin_address, address_dict,
                                                      net.r_oauth, net.r_http)
                      IN  Processed("updated",
                                    calls2 \o <<"get_estimated_delivery">> \o d.calls
                                           \o <<"update_sheet_row", "sleep">>,
                                    IF d.ret /= NoneDict
                                    THEN [estimated_delivery |-> "Estimated by " \o carrier_name]
                                         @@ with_address
                                    ELSE with_address,
                                    FALSE)
                 ELSE Processed("updated", calls2 \o <<"update_sheet_row", "sleep">>,
                                with_address, FALSE)

\* process_tracking_number once the adapter is at hand.
TrackAndUpdate(carrier_api, carrier, tracking_number, env, net) ==
    Only({Only({[u EXCEPT !.track = t.ret] : u \in {UpdateFrom(t, carrier, env, net)}}) :
            t \in {get_tracking_info(carrier_api, tracking_number, net.r_oauth, net.r_track,
                                     net.rnd)}})

\* process_tracking_number with no try/except around its body: the exception
\* leaves the function.
Routed_unguarded(number, carrier, env, net) ==
    LET f == create_carrier_api(carrier, NoneStr, env)
    IN  IF f.raised
        THEN [Processed("exception", <<"create_carrier_api">>, NoneDict, FALSE)
              EXCEPT !.raised = TRUE]
        ELSE IF f.self = NoAdapter
        THEN Processed("no_adapter", <<"create_carrier_api", "update_sheet_row">>,
                       [carrier |-> IF TruthyS(carrier) THEN carrier ELSE "UNKNOWN"], FALSE)
        ELSE TrackAndUpdate(f.self, carrier, number, env, net)

\* process_tracking_number from the detected carrier on.
Routed(number, carrier, env, net) ==
    LET f == create_carrier_api(carrier, NoneStr, env)
    IN  IF f.raised   \* caught by `except Exception`, logged
        THEN Processed("exception", <<"create_carrier_api">>, NoneDict, TRUE)
        ELSE IF f.self = NoAdapter
        THEN Processed("no_adapter", <<"create_carrier_api", "update_sheet_row">>,
                       [carrier |-> IF TruthyS(carrier) THEN carrier ELSE "UNKNOWN"], FALSE)
        ELSE TrackAndUpdate(f.self, carrier, number, env, net)

\* process_tracking_number(tracking_number, row_index, sheet)
process_tracking_number(tracking_number, env, net) ==
    IF IsFalsyStr(tracking_number) \/ strip(tracking_number) = <<>>
    THEN Processed("empty", <<>>, NoneDict, FALSE)
    ELSE Only({Routed(strip(tracking_number), carrier, env, net) :
                 carrier \in {detect_carrier(strip(tracking_number))}})

\* The sheets of a run: no rows at all, or a first row and up to MaxRows rows
\* below it whose tracking cells are a number of each carrier, an unknown
\* number, a blank cell or a cell of spaces.
TrackingCells ==
    {<<"1", "Z">> \o Run("9", 16), <<"9">> \o Run("0", 21), Run("1", 10), <<"X">> \o Run("1", 3),
     <<>>, <<" ", " ">>}
FirstCells == {<<"Tracking Number">>, <<"tracking number">>, <<"1", "Z">> \o Run("9", 16)}
RowLists(n) == [1..n -> {RowOf(a) : a \in TrackingCells}]
Sheets ==
    {<<>>}
    \cup {<<RowOf(h)>> \o rows : h \in {<<"Tracking Number">>}, rows \in UNION {RowLists(n) : n \in 0..MaxRows}}
    \cup {<<RowOf(h)>> \o rows : h \in FirstCells, rows \in RowLists(1)}
BatEnvs ==
    {[ups |-> FALSE, usps |-> FALSE, dhl |-> FALSE, origin_zip |-> ""],
     [ups |-> TRUE, usps |-> TRUE, dhl |-> TRUE, origin_zip |-> "89501"]}
\* What the network and the clock give one row.
BatNets(env) ==
    [r_oauth : OAuthFor(env) \ {"no_token"},
     r_track : {a \in HttpAnswers({PayloadOf(PlainCase)}) : a.kind /= "bad_json"},
     r_http : {NoAnswer},
     rnd : {r \in Randoms : r.now.year = 2025 /\ r.location_index = 0 /\ r.delivery_days \in {1, 5}}]

\* all_values[0][0].lower()
LowerCell(cell) == IF cell = <<"Tracking Number">> THEN <<"tracking number">> ELSE cell

BatInit ==
    /\ bat_env \in BatEnvs
    /\ bat_sheet \in Sheets
    /\ bat_values = <<>> /\ bat_pc = "start" /\ bat_i = 0 /\ bat_done = <<>> /\ bat_end = "-"
    /\ DetIdle /\ ParIdle /\ ApiIdle /\ ModIdle /\ FmtIdle /\ SeedIdle

\* main, up to the loop: connect, fetch the rows, write the header row when the
\* sheet is empty or its first cell is not the header, fetch again.
Start ==
    /\ bat_pc = "start"
    /\ \E connected \in BOOLEAN, headers_ok \in BOOLEAN :
         IF ~connected   \* setup_google_sheets raised; main's except logs it
         THEN /\ bat_pc' = "done" /\ bat_end' = "error"
              /\ UNCHANGED <<bat_sheet, bat_values, bat_i>>
         ELSE LET needs_header ==
                      Len(bat_sheet) = 0 \/ LowerCell(bat_sheet[1].A) /= <<"tracking number">>
                  header_row == [c \in Columns |-> COLUMN_MAPPING[c]]
                  sheet1 == IF needs_header /\ headers_ok
                            THEN IF Len(bat_sheet) = 0 THEN <<header_row>>
                                 ELSE [bat_sheet EXCEPT ![1] = header_row]
                            ELSE bat_sheet
              IN  /\ bat_sheet' = sheet1
                  /\ bat_values' = sheet1
                  /\ IF needs_header /\ Len(sheet1) <= 1
                     THEN bat_pc' = "done" /\ bat_end' = "returned" /\ bat_i' = bat_i
                     ELSE bat_pc' = "loop" /\ bat_end' = bat_end /\ bat_i' = 2
    /\ UNCHANGED <<bat_env, bat_done, detVars, parVars, apiVars, modVars, fmtVars, seedVars>>

\* What a turn of main's loop leaves behind for row i, given what
\* process_tracking_number did (p).
TurnOf(p, sheet, i, carrier, write_ok) ==
    [sheet |-> IF p.data = NoneDict THEN sheet ELSE update_sheet_row(sheet, i, p.data, write_ok),
     done |-> <<[row |-> i, carrier |-> carrier, outcome |-> p.outcome, calls |-> p.calls,
                 caught |-> p.caught, write_ok |-> write_ok, track |-> p.track,
                 updates |-> IF p.data = NoneDict THEN {} ELSE SheetUpdates(i, p.data)]>>,
     raised |-> p.raised]

\* One turn of main's loop: a row without a tracking cell is skipped; else
\* process_tracking_number(row[0].strip(), i, sheet).
Turn(sheet, i, row, env, net, write_ok) ==
    IF row.A = <<>>
    THEN [sheet |-> sheet, done |-> <<>>, raised |-> FALSE]
    ELSE Only({TurnOf(p, sheet, i, carrier, write_ok) :
                 p \in {process_tracking_number(strip(row.A), env, net)},
                 carrier \in {detect_carrier(strip(row.A))}})

\* for i, row in enumerate(all_values[start_row-1:], start=start_row): one turn.
\* An exception leaving process_tracking_number ends the loop in main's except.
ProcessRow ==
    /\ bat_pc = "loop" /\ bat_i <= Len(bat_values)
    /\ \E t \in {Turn(bat_sheet, bat_i, bat_values[bat_i], bat_env, net, write_ok) :
                   net \in BatNets(bat_env), write_ok \in BOOLEAN} :
         /\ bat_sheet' = t.sheet
         /\ bat_done' = bat_done \o t.done
         /\ bat_pc' = (IF t.raised THEN "done" ELSE "loop")
         /\ bat_end' = (IF t.raised THEN "error" ELSE bat_end)
         /\ bat_i' = (IF t.raised THEN bat_i ELSE bat_i + 1)
    /\ UNCHANGED <<bat_env, bat_values, detVars, parVars, apiVars, modVars, fmtVars, seedVars>>

\* The loop is over: "Multi-carrier tracking script completed successfully".
Finish ==
    /\ bat_pc = "loop" /\ bat_i > Len(bat_values)
    /\ bat_pc' = "done" /\ bat_end' = "completed"
    /\ UNCHANGED <<bat_env, bat_sheet, bat_values, bat_i, bat_done, detVars, parVars, apiVars, modVars, fmtVars, seedVars>>

BatNext == Start \/ ProcessRow \/ Finish

\* The records an adapter's get_tracking_info can hand to
\* process_tracking_number: an error record, or a status with an address and
\* a delivery estimate that are present, empty or absent.
TrackRecords ==
    {ErrorRecord("API Error", c) : c \in {"UPS", "DHL"}}
    \cup {standardize_response(ErrorBody, "In Transit", "April 18, 2025", "Reno, NV", a, e, c) :
            a \in Addresses \cup {NoneDict}, e \in {None, "", "April 21, 2025"},
            c \in {"UPS", "DHL"}}

ChainInit ==
    /\ bat_env \in BatEnvs
    /\ bat_sheet = <<RowOf(<<"Tracking Number">>), RowOf(Run("1", 10))>>
    /\ bat_values = bat_sheet /\ bat_pc = "chain" /\ bat_i = 2 /\ bat_done = <<>>
    /\ bat_end = "-"
    /\ DetIdle /\ ParIdle /\ ApiIdle /\ ModIdle /\ FmtIdle /\ SeedIdle

\* process_tracking_number from the return of get_tracking_info on, for a
\* record of any content.
Chain ==
    /\ bat_pc = "chain"
    /\ \E track_result \in TrackRecords, write_ok \in BOOLEAN :
         LET carrier_api == NewInstance(carrier_apis(track_result.carrier), bat_env)
             p == [UpdateFrom(Effect(carrier_api, track_result, <<>>), track_result.carrier,
                              bat_env, [r_oauth |-> "exception", r_http |-> NoAnswer])
                   EXCEPT !.track = track_result]
             t == TurnOf(p, bat_sheet, bat_i, track_result.carrier, write_ok)
         IN  /\ bat_sheet' = t.sheet
             /\ bat_done' = t.done
    /\ bat_pc' = "done" /\ bat_end' = "completed"
    /\ UNCHANGED <<bat_env, bat_values, bat_i, detVars, parVars, apiVars, modVars, fmtVars, seedVars>>

SpecChain == ChainInit /\ [][Chain]_vars

\* update_sheet_row called on its own: a sheet with a header row, a row filled
\* by an earlier run and a row with only its tracking number; any of its rows;
\* and update data holding each field with a value, empty, null or not at all.
UpdateKeys == {"carrier", "status", "last_update", "location", "validated_address",
               "estimated_delivery"}
UpdateData ==
    {d \in UNION {[ks -> {None, "", "new", "Estimated delivery: new"}] : ks \in SUBSET UpdateKeys} :
        \A k \in DOMAIN d : d[k] = "Estimated delivery: new" => k = "estimated_delivery"}
FilledRow(a) ==
    [A |-> a, B |-> "UPS", C |-> "In Transit", D |-> "April 17, 2025", E |-> "Reno, NV",
     F |-> "Address validation failed", G |-> "April 20, 2025"]

SheetInit ==
    /\ bat_env = [ups |-> FALSE, usps |-> FALSE, dhl |-> FALSE, origin_zip |-> ""]
    /\ bat_sheet = <<[c \in Columns |-> COLUMN_MAPPING[c]], FilledRow(<<"1", "Z">> \o Run("9", 16)),
                     RowOf(Run("1", 10))>>
    /\ bat_values = bat_sheet /\ bat_pc = "sheet" /\ bat_i \in DOMAIN bat_sheet
    /\ bat_done = <<>> /\ bat_end = "-"
    /\ DetIdle /\ ParIdle /\ ApiIdle /\ ModIdle /\ FmtIdle /\ SeedIdle

\* update_sheet_row(sheet, row, data)
UpdateSheetRow ==
    /\ bat_pc = "sheet"
    /\ \E data \in UpdateData, write_ok \in BOOLEAN :
         /\ bat_sheet' = update_sheet_row(bat_sheet, bat_i, data, write_ok)
         /\ bat_done' = <<[row |-> bat_i, data |-> data, write_ok |-> write_ok]>>
    /\ bat_pc' = "sheet_done"
    /\ UNCHANGED <<bat_env, bat_values, bat_i, bat_end, detVars, parVars, apiVars, modVars, fmtVars, seedVars>>

SpecSheet == SheetInit /\ [][UpdateSheetRow]_vars

\* main is one sequential thread: while it has not ended it takes its next step
\* (every call it makes returns), which moves it down the sheet or ends it.
MainRuns ==
    /\ bat_pc /= "done"
    /\ bat_pc' \in {"loop", "done"}
    /\ bat_i' \in {bat_i, bat_i + 1, 2}

SpecBatch == BatInit /\ [][BatNext]_vars /\ WF_<<bat_pc, bat_i>>(MainRuns)

(***************************************************************************)
(* minimal_tracking_seeder: add_tracking_numbers_to_sheet                   *)
(***************************************************************************)
MaxCol == 4
MaxNew == 2

\* cell.lower() of a cell of column A
lower_cell(cell) == IF cell \in {"Tracking Number", "TRACKING NUMBER"} THEN "tracking number" ELSE cell

\* sheet.col_values(1): the cells of column A down to the last non-empty one
col_values(col) ==
    LET filled == {r \in DOMAIN col : col[r] /= ""}
    IN  IF filled = {} THEN <<>>
        ELSE SubSeq(col, 1, CHOOSE r \in filled : \A q \in filled : q <= r)

SetOf(seq) == {seq[k] : k \in DOMAIN seq}

\* get_existing_tracking_numbers(sheet); a failing read is logged and gives set()
get_existing_tracking_numbers(col, fails) ==
    IF fails = "read" THEN {}
    ELSE LET cv == col_values(col)
         IN  IF cv /= <<>> /\ lower_cell(cv[1]) = "tracking number"
             THEN SetOf(Tail(cv)) ELSE SetOf(cv)

\* [tn for tn in tracking_numbers if tn not in existing_numbers]
RECURSIVE NotExisting(_, _)
NotExisting(tracking_numbers, existing_numbers) ==
    IF tracking_numbers = <<>> THEN <<>>
    ELSE (IF Head(tracking_numbers) \in existing_numbers THEN <<>> ELSE <<Head(tracking_numbers)>>)
         \o NotExisting(Tail(tracking_numbers), existing_numbers)

\* What a call leaves: column A, the cells written in order, the count returned.
Seeded(col, writes, ret) == [col |-> col, writes |-> writes, ret |-> ret]
CellWrite(row, value) == [range |-> [col |-> "A", row |-> row], value |-> value]

\* add_tracking_numbers_to_sheet(sheet, tracking_numbers). `fails` names the
\* request that raises, if one does: the read of column A, the header write,
\* add_rows or batch_update. The lists here are shorter than a batch of 20, so
\* the cells go out in one batch_update; a write past the grid raises.
add_tracking_numbers_to_sheet(col, tracking_numbers, fails) ==
    LET existing_numbers == get_existing_tracking_numbers(col, fails)
        new_tracking_numbers == NotExisting(tracking_numbers, existing_numbers)
        next_row == IF existing_numbers = {} THEN 2 ELSE Cardinality(existing_numbers) + 2
        needs_header ==
            /\ existing_numbers = {}
            /\ col_values(col) = <<>> \/ lower_cell(col[1]) /= "tracking number"
        col1 == IF needs_header THEN [col EXCEPT ![1] = "Tracking Number"] ELSE col
        writes1 == IF needs_header THEN <<CellWrite(1, "Tracking Number")>> ELSE <<>>
        required_rows == next_row + Len(new_tracking_numbers) - 1
        col2 == IF required_rows > Len(col1) /\ fails /= "add_rows"
                THEN col1 \o [k \in 1..(required_rows - Len(col1)) |-> ""] ELSE col1
    IN  IF needs_header /\ fails = "header" THEN Seeded(col, <<>>, 0)
        ELSE IF new_tracking_numbers = <<>> THEN Seeded(col2, writes1, 0)
        ELSE IF fails = "batch" \/ required_rows > Len(col2) THEN Seeded(col2, writes1, 0)
        ELSE Seeded([r \in DOMAIN col2 |->
                        IF next_row <= r /\ r <= required_rows
                        THEN new_tracking_numbers[r - next_row + 1] ELSE col2[r]],
                    writes1 \o [k \in DOMAIN new_tracking_numbers |->
                                    CellWrite(next_row + k - 1, new_tracking_numbers[k])],
                    Len(new_tracking_numbers))

\* Column A before the call: a grid of one to MaxCol rows whose first cell is
\* a header, a number or blank and whose other cells are numbers or blank; the
\* list: up to MaxNew numbers, repeats included.
SeedColumns ==
    UNION {{<<h>> \o rest : h \in {"Tracking Number", "TRACKING NUMBER", "X", ""},
                             rest \in [1..n -> {"X", "Y", ""}]} : n \in 0..(MaxCol - 1)}
SeedLists == UNION {[1..n -> {"X", "Z"}] : n \in 0..MaxNew}

SeedInit ==
    /\ seed_before \in SeedColumns /\ seed_col = seed_before
    /\ seed_numbers \in SeedLists
    /\ seed_writes = <<>> /\ seed_ret = 0 /\ seed_pc = "call"
    /\ DetIdle /\ ParIdle /\ ApiIdle /\ BatIdle /\ ModIdle /\ FmtIdle

\* added_count = add_tracking_numbers_to_sheet(sheet, tracking_numbers)
AddTrackingNumbers ==
    /\ seed_pc = "call"
    /\ \E fails \in {"none", "read", "header", "add_rows", "batch"} :
         \E r \in {add_tracking_numbers_to_sheet(seed_col, seed_numbers, fails)} :
            /\ seed_col' = r.col /\ seed_writes' = r.writes /\ seed_ret' = r.ret
    /\ seed_pc' = "done"
    /\ UNCHANGED <<seed_before, seed_numbers, detVars, parVars, apiVars, batVars, modVars, fmtVars>>

SpecSeed == SeedInit /\ [][AddTrackingNumbers]_vars

(***************************************************************************)
(* Claims about the classifier                                             *)
(***************************************************************************)
\* The normal form stated directly: the characters between the first and the
\* last non-whitespace character, spaces left out, each in upper case.
IsCoreStart(s, i) == s[i] \notin Whitespace /\ \A j \in 1..(i - 1) : s[j] \in Whitespace
IsCoreEnd(s, i) == s[i] \notin Whitespace /\ \A j \in (i + 1)..Len(s) : s[j] \in Whitespace
Core(s) ==
    IF \A i \in 1..Len(s) : s[i] \in Whitespace THEN <<>>
    ELSE SubSeq(s, CHOOSE i \in 1..Len(s) : IsCoreStart(s, i),
                   CHOOSE i \in 1..Len(s) : IsCoreEnd(s, i))
NormalForm(s) ==
    LET core == Core(s)
        kept == {i \in 1..Len(core) : core[i] /= " "}
        nth[k \in 1..Cardinality(kept)] ==
            CHOOSE i \in kept : Cardinality({j \in kept : j < i}) = k - 1
    IN  [k \in 1..Cardinality(kept) |-> UpperChar(core[nth[k]])]

\* The shapes of the carriers' rules: \d of the UPS rules is any decimal digit,
\* [0-9] of the USPS and DHL rules an ASCII digit.
Between(s, a, b, cls) == \A k \in a..b : s[k] \in cls
ShapeUPS(s) ==
    \/ Len(s) = 18 /\ s[1] = "1" /\ s[2] = "Z" /\ Between(s, 3, 18, AsciiDigits \cup UpperLetters)
    \/ Len(s) = 11 /\ s[1] = "T" /\ Between(s, 2, 11, AsciiDigits \cup {UniDigit})
    \/ Len(s) = 9 /\ Between(s, 1, 9, AsciiDigits \cup {UniDigit})
    \/ Len(s) = 12 /\ Between(s, 1, 12, AsciiDigits \cup {UniDigit})
    \/ Len(s) = 10 /\ s[1] \in {"H", "V", "R", "U"} /\ Between(s, 2, 10, AsciiDigits \cup {UniDigit})
ShapeUSPS(s) ==
    \/ Len(s) \in 16..22 /\ s[1] = "9" /\ Between(s, 2, Len(s), AsciiDigits)
    \/ Len(s) = 13 /\ Between(s, 1, 2, UpperLetters) /\ Between(s, 3, 11, AsciiDigits)
                   /\ s[12] = "U" /\ s[13] = "S"
    \/ Len(s) = 13 /\ s[1] = "E" /\ s[2] \in UpperLetters /\ Between(s, 3, 11, AsciiDigits)
                   /\ s[12] = "U" /\ s[13] = "S"
    \/ Len(s) = 20 /\ Between(s, 1, 20, AsciiDigits)
    \/ Len(s) = 13 /\ Between(s, 1, 13, AsciiDigits)
    \/ Len(s) = 15 /\ Between(s, 1, 2, UpperLetters) /\ Between(s, 3, 15, AsciiDigits)
ShapeDHL(s) ==
    \/ Len(s) \in {10, 11} /\ Between(s, 1, Len(s), AsciiDigits)
    \/ Len(s) = 20 /\ s[1] = "J" /\ s[2] = "D" /\ Between(s, 3, 20, AsciiDigits)
    \/ Len(s) = 10 /\ Between(s, 1, 4, AsciiDigits) /\ Between(s, 5, 8, AsciiDigits)
                   /\ Between(s, 9, 10, AsciiDigits)

ExpectedCarrier(raw) ==
    IF raw = NoneStr \/ raw = <<>> THEN "UNKNOWN"
    ELSE LET s == NormalForm(raw)
         IN  IF ShapeUPS(s) THEN "UPS"
             ELSE IF ShapeUSPS(s) THEN "USPS"
             ELSE IF ShapeDHL(s) THEN "DHL"
             ELSE "UNKNOWN"

\* C1: detect_carrier returns, for every input, the first carrier in the order
\* UPS, USPS, DHL one of whose rules fits the whole normal form (trimmed, upper
\* case, spaces removed) of the input, and UNKNOWN exactly when none does,
\* empty and null input included.
Thm_C1_detect_carrier == det_pc = "done" => det_result = ExpectedCarrier(det_input)

\* A padded, lower-case input with separating spaces that is classified USPS.
Wit_C1_detect_carrier ==
    /\ det_pc = "done"
    /\ det_result = "USPS"
    /\ det_input /= NoneStr
    /\ Len(NormalForm(det_input)) + 4 <= Len(det_input)
    /\ \E i \in 1..Len(det_input) : det_input[i] \in LowerLetters

MatchingCarriers(s) ==
    {k \in 1..Len(CARRIER_PATTERNS) : MatchesAny(CARRIER_PATTERNS[k].patterns, s)}
Reversed(table) == [k \in 1..Len(table) |-> table[Len(table) + 1 - k]]

\* C8: no normalized string fits the rules of two different carriers, so the
\* carrier found does not depend on the order in which the carriers are tried.
Thm_C8_exclusive ==
    det_input /= NoneStr =>
        LET s == normalize(det_input)
        IN  /\ Cardinality(MatchingCarriers(s)) <= 1
            /\ FirstCarrier(Reversed(CARRIER_PATTERNS), 1, s) = FirstCarrier(CARRIER_PATTERNS, 1, s)

\* An eleven-digit string, between the UPS lengths 9 and 12, that fits DHL alone.
Wit_C8_exclusive ==
    /\ det_pc = "done"
    /\ det_input /= NoneStr
    /\ Len(normalize(det_input)) = 11
    /\ MatchingCarriers(normalize(det_input)) = {3}
    /\ det_result = "DHL"

(***************************************************************************)
(* Claims about the UPS response parser                                    *)
(***************************************************************************)
\* What each variant of a source yields, as the carrier's documentation of the
\* formats gives it (None: nothing).
YieldOfDeliveryDate(k) ==
    CASE k = "one" -> "April 20, 2025"
      [] k = "second" -> "April 21, 2025"
      [] k = "text" -> "TBD"
      [] OTHER -> None
YieldOfDeliveryTime(k) ==
    CASE k = "edw" -> "9:00 AM - 1:00 PM"
      [] k = "cmt" -> "By 5:00 PM"
      [] OTHER -> None
YieldOfStatus(k) ==
    CASE k = "sched2" -> "April 18, 2025"
      [] k = "sched4" -> "April 8, 2025"
      [] k = "sched_m13" -> "13/18/25"
      [] OTHER -> None

TupleFields == {"status", "last_update", "location", "address", "delivery_estimate"}
FiveNone(r) ==
    /\ r.status = None /\ r.last_update = None /\ r.location = None
    /\ r.address = NoneDict /\ r.delivery_estimate = None
\* The payloads of the run whose shape makes a lookup of the parser raise.
WronglyShaped ==
    IF par_case \in DhlCases
    THEN \/ par_case.shape = "null_shipment"
         \/ par_case.shape = "full" /\ (par_case.st = "null" \/ par_case.ev \in {"null", "nullloc"})
    ELSE par_case.shape \in {"no_shipments", "no_packages", "no_activities"}

\* C23: the UPS and the DHL parser return for every payload the five values
\* (status, last_update, location, address, delivery_estimate) and never leave
\* by an exception; the five are all null when the payload is null or empty,
\* when a field of it has the wrong shape, and whenever the except branch
\* produced the result.
Thm_C23_parsers_total ==
    (par_pc \in {"done", "done_dhl"}) =>
        /\ DOMAIN par_result = TupleFields \cup {"failed"}
        /\ (~TruthyDict(par_input) \/ par_result.failed \/ WronglyShaped) => FiveNone(par_result)
        /\ WronglyShaped => par_result.failed

\* The DHL parser was handed a shipment whose status is null and the UPS parser
\* an empty shipment list or a null status description: the except branch
\* answered with five nulls.
Wit_C23_parsers_total ==
    /\ \/ par_pc = "done_dhl" /\ par_case.shape = "full" /\ par_case.st = "null"
       \/ par_pc = "done" /\ par_case.shape = "no_shipments"
    /\ par_result.failed
    /\ FiveNone(par_result)

\* The payloads of the run whose deliveryDate list yields nothing.
NoDeliveryDate == par_case.dd \in {"absent", "empty", "blank"}
NoDeliveryTime == par_case.dt \notin {"edw", "cmt"}

\* C24: when the deliveryDate list yields nothing, a deliveryTime object of type
\* EDW with a start and an end time gives '<start> - <end>' and one of type CMT
\* with an end time gives 'By <end>', the times formatted; every other
\* deliveryTime object (absent, empty, another or no type, EDW lacking a time,
\* CMT lacking the end time) gives nothing, the estimate being left to the
\* status text.
Thm_C24_delivery_time ==
    (par_pc = "done" /\ par_case.shape = "full" /\ NoDeliveryDate) =>
        /\ par_case.dt = "edw" => par_result.delivery_estimate = "9:00 AM - 1:00 PM"
        /\ par_case.dt = "cmt" => par_result.delivery_estimate = "By 5:00 PM"
        /\ NoDeliveryTime =>
                par_result.delivery_estimate \in {None, "April 18, 2025", "April 8, 2025", "13/18/25"}
        /\ (NoDeliveryTime /\ par_case.st \in {"absent", "null", "delivered", "sched_nodate", "date_nophrase"})
                => par_result.delivery_estimate = None

\* An EDW object lacking its end time gave nothing, and neither did the status.
Wit_C24_delivery_time ==
    /\ par_pc = "done" /\ par_case.shape = "full" /\ NoDeliveryDate
    /\ par_case.dt = "edw_start"
    /\ par_case.st = "delivered"
    /\ par_result.status = "Delivered"
    /\ par_result.delivery_estimate = None

\* C25: when the deliveryDate list and the deliveryTime object yield nothing, a
\* status text containing 'SCHEDULED DELIVERY' in any letter case and a
\* MM/DD/YY or MM/DD/YYYY date gives '<Month name> <day>, <4-digit year>', and
\* a status text without the phrase or without such a date gives no estimate.
Cex_C25_status_date ==
    (par_pc = "done" /\ par_case.shape = "full" /\ NoDeliveryDate /\ NoDeliveryTime
        /\ par_case.st \notin {"absent", "null"}) =>
        LET e == par_result.delivery_estimate
        IN  /\ par_case.st = "sched2" => e = "April 18, 2025"
            /\ par_case.st = "sched4" => e = "April 8, 2025"
            /\ par_case.st \in {"delivered", "sched_nodate", "date_nophrase"} => e = None
            /\ e /= None => \E m \in 1..12, d \in 1..31, y \in 2000..2099 :
                    e = month_names[m] \o " " \o ToString(d) \o ", " \o ToString(y)

(***************************************************************************)
(* Claims about the adapters                                               *)
(***************************************************************************)
\* The call had a token to use: one kept from an earlier call or one just granted.
TokenAvailable(op) == TruthyS(op.self.access_token) \/ op.r_oauth = "token"
CarrierOf(cls) ==
    CASE cls = "UPSApi" -> "UPS" [] cls = "USPSApi" -> "USPS" [] cls = "DHLApi" -> "DHL"
RecordKeys == {"tracking_data", "status", "last_update", "location", "address",
               "delivery_estimate", "carrier"}
\* The token exchange failed, the request raised, the answer was not 200 or not
\* JSON, or there was no tracking number to build the URL from.
CallFailed(op) ==
    /\ op.self.cls = "UPSApi"
    /\ \/ ~TokenAvailable(op)
       \/ op.r_http.kind /= "http"
       \/ op.r_http.code /= 200
       \/ op.tracking_number = NoneStr

\* C2: get_tracking_info returns a record of the standard shape carrying the
\* adapter's carrier and never raises; when the token exchange fails, the
\* answer is not 200 or an exception occurs, the record's status is 'API Error'
\* or 'Error' and its other fields are null.
Thm_C2_fail_soft ==
    api_op.name = "get_tracking_info" =>
        /\ ~api_raised
        /\ DOMAIN api_ret = RecordKeys
        /\ api_ret.carrier = CarrierOf(api_op.self.cls)
        /\ CallFailed(api_op) =>
              /\ api_ret.status \in {"API Error", "Error"}
              /\ api_ret.tracking_data = NoneDict
              /\ api_ret.last_update = None /\ api_ret.location = None
              /\ api_ret.address = NoneDict /\ api_ret.delivery_estimate = None

\* A UPS call that held a token and was answered 404 with an error body.
Wit_C2_fail_soft ==
    /\ api_op.name = "get_tracking_info" /\ api_op.self.cls = "UPSApi"
    /\ TokenAvailable(api_op) /\ api_op.tracking_number /= NoneStr
    /\ api_op.r_http.kind = "http" /\ api_op.r_http.code = 404
    /\ api_op.r_http.body /= NoneDict
    /\ api_ret.status = "API Error"

\* At least one shipment, package and activity.
WellFormed(body) ==
    /\ Has(body, "trackResponse") /\ Has(body["trackResponse"], "shipment")
    /\ body["trackResponse"]["shipment"] /= <<>>
    /\ Has(body["trackResponse"]["shipment"][1], "package")
    /\ body["trackResponse"]["shipment"][1]["package"] /= <<>>
    /\ Has(body["trackResponse"]["shipment"][1]["package"][1], "activity")
    /\ body["trackResponse"]["shipment"][1]["package"][1]["activity"] /= <<>>

\* C3: with a token and a 200 answer carrying a well-formed payload, the UPS
\* record holds the payload and the fields the UPS parser extracts from it.
Cex_C3_ups_parsed ==
    ( /\ api_op.name = "get_tracking_info" /\ api_op.self.cls = "UPSApi"
      /\ TokenAvailable(api_op) /\ api_op.tracking_number /= NoneStr
      /\ api_op.r_http.kind = "http" /\ api_op.r_http.code = 200
      /\ WellFormed(api_op.r_http.body) )
    => LET p == parse_ups_tracking_response(api_op.r_http.body)
       IN  /\ api_ret.tracking_data = api_op.r_http.body
           /\ api_ret.status = p.status /\ api_ret.last_update = p.last_update
           /\ api_ret.location = p.location /\ api_ret.address = p.address
           /\ api_ret.delivery_estimate = p.delivery_estimate
           /\ api_ret.status \notin {"API Error", "Error"}

\* The carrier asked for: the name given, else the one detected from the number.
Requested(op) ==
    IF TruthyS(op.carrier_name) THEN op.carrier_name ELSE detect_carrier(op.tracking_number)

\* C4: the factory never raises; for UPS, USPS or DHL it returns an instance of
\* that carrier's class, for another name except UNKNOWN it returns null.
Cex_C4_factory_total ==
    api_op.name = "create_carrier_api" =>
        /\ ~api_raised
        /\ Requested(api_op) \in {"UPS", "USPS", "DHL"} =>
              api_self.cls = carrier_apis(Requested(api_op))
        /\ Requested(api_op) \notin {"UPS", "USPS", "DHL", "UNKNOWN"} => api_self = NoAdapter

\* Only postal_code is non-empty among postal_code, city and state.
PostalOnly(address) ==
    /\ TruthyS(Get(address, "postal_code", None))
    /\ ~TruthyS(Get(address, "city", None)) /\ ~TruthyS(Get(address, "state", None))
Requests(calls) == {calls[i] : i \in DOMAIN calls}

\* C9: given a postal code alone, the UPS adapter with a token sends the
\* address-validation request and returns the body of a 200 answer.
Cex_C9_postal_only ==
    ( /\ api_op.name = "validate_address" /\ api_op.self.cls = "UPSApi"
      /\ PostalOnly(api_op.address) /\ TokenAvailable(api_op) )
    => /\ "address" \in Requests(api_calls)
       /\ (api_op.r_http.kind = "http" /\ api_op.r_http.code = 200) => api_ret = api_op.r_http.body

\* C10: given an address without postal code, city and state, validate_address
\* returns null and makes no request of any kind, token request included.
Thm_C10_no_request ==
    (api_op.name = "validate_address" /\ ~HasAddressInfo(api_op.address)) =>
        /\ ~api_raised
        /\ api_ret = NoneDict
        /\ api_calls = <<>>

\* A fresh UPS adapter, holding no token, asked about an address with a street only.
Wit_C10_no_request ==
    /\ api_op.name = "validate_address" /\ api_op.self.cls = "UPSApi"
    /\ api_op.self.access_token = None /\ api_n = 1
    /\ ~HasAddressInfo(api_op.address) /\ TruthyDict(api_op.address)
    /\ api_ret = NoneDict /\ api_calls = <<>>

\* C11: the UPS get_estimated_delivery returns null when the origin or the
\* destination postal code is missing or empty; with both present (and a token
\* to send) it sends the transit-time request and returns the body of a 200 answer.
Cex_C11_transit_query ==
    (api_op.name = "get_estimated_delivery" /\ api_op.self.cls = "UPSApi") =>
        IF \/ ~TruthyS(Get(api_op.origin, "postal_code", None))
           \/ ~TruthyS(Get(api_op.destination, "postal_code", None))
        THEN api_ret = NoneDict
        ELSE TokenAvailable(api_op) =>
                /\ "transit" \in Requests(api_calls)
                /\ (api_op.r_http.kind = "http" /\ api_op.r_http.code = 200) =>
                       api_ret = api_op.r_http.body

\* C12: an adapter made without its credentials in the environment answers
\* get_tracking_info with a record whose status is 'API Not Configured'.
Cex_C12_not_configured ==
    (api_op.name = "get_tracking_info" /\ ~api_op.self.configured) =>
        /\ ~api_raised
        /\ api_ret.status = "API Not Configured"

\* C13: once a UPSApi instance holds a token it keeps that token, and no later
\* call on the instance sends a token request, whatever the call is answered.
Thm_C13_token_cached ==
    [][(api_self.cls = "UPSApi" /\ TruthyS(api_self.access_token)) =>
          /\ api_self' = api_self
          /\ "oauth" \notin Requests(api_calls')]_vars

\* The second get_tracking_info on an instance that got its token in the
\* first: answered 404, with only the tracking request sent.
Wit_C13_token_cached ==
    /\ api_n = 2 /\ api_op.name = "get_tracking_info" /\ api_op.self.cls = "UPSApi"
    /\ TruthyS(api_op.self.access_token) /\ api_self.access_token = api_op.self.access_token
    /\ api_op.tracking_number /= NoneStr
    /\ api_op.r_http.kind = "http" /\ api_op.r_http.code = 404
    /\ api_calls = <<"track">> /\ api_ret.status = "API Error"

\* C14: the factory returns a UPS adapter when neither argument is given, when
\* the name is 'UNKNOWN', and when no name is given and the number matches no
\* pattern; with no name and a number, the carrier is the one detect_carrier
\* returns for the number.
Thm_C14_ups_fallback ==
    api_op.name = "create_carrier_api" =>
        LET absent == ~TruthyS(api_op.carrier_name)
            given == ~IsFalsyStr(api_op.tracking_number)
            detected == detect_carrier(api_op.tracking_number)
        IN  /\ ( \/ absent /\ ~given
                 \/ api_op.carrier_name = "UNKNOWN"
                 \/ absent /\ given /\ detected = "UNKNOWN" )
               => (~api_raised /\ api_pc = "ready" /\ api_self.cls = "UPSApi")
            /\ (absent /\ given /\ detected /= "UNKNOWN") =>
                  /\ ResolvedCarrier(api_op.carrier_name, api_op.tracking_number) = detected
                  /\ api_pc = "ready" => api_self.cls = carrier_apis(detected)
                  /\ api_pc = "none" => carrier_apis(detected) = "None"
                  /\ api_raised => ~CanInstantiate(carrier_apis(detected))

\* No name and a number that matches no pattern: a UPS adapter.
Wit_C14_ups_fallback ==
    /\ api_op.name = "create_carrier_api" /\ api_op.carrier_name = None
    /\ api_op.tracking_number = <<"X", "1", "1", "1">>
    /\ detect_carrier(api_op.tracking_number) = "UNKNOWN"
    /\ api_pc = "ready" /\ api_self.cls = "UPSApi"

\* Where in a row's calls the call of that name is (0 when it was not made).
Pos(calls, name) ==
    IF \E k \in DOMAIN calls : calls[k] = name
    THEN CHOOSE k \in DOMAIN calls : calls[k] = name /\ \A j \in 1..(k - 1) : calls[j] /= name
    ELSE 0
Times(calls, name) == Cardinality({k \in DOMAIN calls : calls[k] = name})
AdapterCalls == {"get_tracking_info", "validate_address", "get_estimated_delivery"}

\* C21: per row the adapter is asked to track first; to validate the address
\* only after that and only when the record's address has a non-empty field;
\* to estimate only after the validation and only when the record carries no
\* delivery estimate and the origin and destination postal codes are non-empty.
Thm_C21_call_chain ==
    \A k \in DOMAIN bat_done :
        LET d == bat_done[k]
            at(name) == Pos(d.calls, name)
        IN  /\ \A name \in AdapterCalls : Times(d.calls, name) <= 1
            /\ \A name \in AdapterCalls \ {"get_tracking_info"} :
                    at(name) > 0 => (at("get_tracking_info") > 0
                                     /\ at("get_tracking_info") < at(name))
            /\ at("validate_address") > 0 =>
                    /\ d.track /= NoneDict /\ TruthyDict(d.track.address)
                    /\ AnyValue(d.track.address)
            /\ at("get_estimated_delivery") > 0 =>
                    /\ at("validate_address") > 0
                    /\ at("validate_address") < at("get_estimated_delivery")
                    /\ ~TruthyS(d.track.delivery_estimate)
                    /\ TruthyS(bat_env.origin_zip)
                    /\ TruthyS(Get(d.track.address, "postal_code", None))

\* A record with a postal code and no estimate, the origin postal code set:
\* tracked, validated, estimated, in that order.
Wit_C21_call_chain ==
    \E k \in DOMAIN bat_done :
        /\ bat_done[k].outcome = "updated"
        /\ Pos(bat_done[k].calls, "get_tracking_info") = 2
        /\ Pos(bat_done[k].calls, "validate_address") = 3
        /\ Pos(bat_done[k].calls, "get_estimated_delivery") = 4
        /\ bat_done[k].track.address.postal_code = "78701"

\* C22: between the processing of two rows with a tracking number the driver
\* sleeps, however the processing of the earlier row ended.
Cex_C22_delay ==
    \A k, j \in DOMAIN bat_done :
        (k < j /\ bat_done[k].outcome /= "empty" /\ bat_done[j].outcome /= "empty") =>
            /\ Times(bat_done[k].calls, "sleep") = 1
            /\ bat_done[k].calls[Len(bat_done[k].calls)] = "sleep"

(***************************************************************************)
(* Claims about the other functions of carrier_detector                    *)
(***************************************************************************)
\* The carrier format_tracking_number goes by: the one supplied, else the one
\* the rules give the string.
CarrierFor(call) ==
    IF TruthyS(call.carrier) THEN call.carrier ELSE ExpectedCarrier(call.arg)
TenDigits(s) == Len(s) = 10 /\ \A k \in 1..Len(s) : s[k] \in Digits10

\* C15: format_tracking_number returns the string trimmed, uppercased and
\* without spaces, except that for the carrier DHL (supplied, or detected when
\* none is supplied) and exactly ten digits it returns them grouped 4-4-2 with
\* single spaces between the groups.
Thm_C15_format ==
    \A i \in DOMAIN mod_calls :
        LET call == mod_calls[i]
            nf == NormalForm(call.arg)
        IN  (call.name = "format_tracking_number" /\ ~IsFalsyStr(call.arg)) =>
                IF CarrierFor(call) = "DHL" /\ TenDigits(nf)
                THEN /\ Len(call.ret) = 12
                     /\ call.ret[5] = " " /\ call.ret[10] = " "
                     /\ SelectSeq(call.ret, IsNotSpace) = nf
                ELSE call.ret = nf

\* ' 1111 1111 11 ' formatted with no carrier supplied: '1111 1111 11'.
Wit_C15_format ==
    \E i \in DOMAIN mod_calls :
        /\ mod_calls[i].name = "format_tracking_number" /\ mod_calls[i].carrier = None
        /\ mod_calls[i].arg = <<" ">> \o Grouped("1", 10, <<" ">>) \o <<" ", "\n">>
        /\ Str(mod_calls[i].ret) = "1111 1111 11"

Thm_C17_validate ==
    \A i \in DOMAIN mod_calls :
        mod_calls[i].name = "validate_tracking_number" =>
            /\ mod_calls[i].ret \in BOOLEAN
            /\ mod_calls[i].ret <=> (detect_carrier(mod_calls[i].arg) /= "UNKNOWN")
            /\ mod_calls[i].ret <=> (ExpectedCarrier(mod_calls[i].arg) /= "UNKNOWN")

\* One string found valid and, in the same run, one found invalid.
Wit_C17_validate ==
    /\ Len(mod_calls) = 2
    /\ mod_calls[1].name = "validate_tracking_number" /\ mod_calls[1].ret = FALSE
    /\ ~IsFalsyStr(mod_calls[1].arg) /\ NormalForm(mod_calls[1].arg) /= <<>>
    /\ mod_calls[2].name = "validate_tracking_number" /\ mod_calls[2].ret = TRUE

\* The carrier each sample's inline comment states.
StatedCarrier == <<"UPS", "USPS", "DHL", "UNKNOWN", "UPS", "USPS", "DHL">>

\* C26: detect_carrier classifies each sample of the self-test as its inline
\* comment states, and validate_tracking_number is true for each of them
\* except 'INVALID123' (the fourth).
Cex_C26_self_test ==
    \A i \in DOMAIN mod_calls : \A k \in DOMAIN test_numbers :
        mod_calls[i].arg = test_numbers[k] =>
            /\ mod_calls[i].name = "detect_carrier" => mod_calls[i].ret = StatedCarrier[k]
            /\ mod_calls[i].name = "validate_tracking_number" => mod_calls[i].ret = (k /= 4)

\* The column update_sheet_row writes each field of its data to.
ColumnOf ==
    [carrier |-> "B", status |-> "C", last_update |-> "D", location |-> "E",
     validated_address |-> "F", estimated_delivery |-> "G"]
\* The field is missing from the data, null or empty.
NotGiven(data, key) == key \notin DOMAIN data \/ data[key] \in {None, ""}

\* C28: after update_sheet_row(sheet, row, data) the sheet has the rows it had;
\* every cell of another row, every cell of column A, and every cell of the
\* given row whose field is missing, null or empty in data holds what it held
\* before the call.
Thm_C28_row_frame ==
    bat_pc = "sheet_done" =>
        LET call == bat_done[1]
        IN  /\ DOMAIN bat_sheet = DOMAIN bat_values
            /\ \A r \in DOMAIN bat_sheet : \A c \in Columns :
                    (\/ r /= call.row
                     \/ c = "A"
                     \/ \E k \in UpdateKeys : ColumnOf[k] = c /\ NotGiven(call.data, k))
                        => bat_sheet[r][c] = bat_values[r][c]

\* The filled row was updated with a status and an empty location: the status
\* cell changed, the location cell and the tracking cell kept their values.
Wit_C28_row_frame ==
    /\ bat_pc = "sheet_done"
    /\ bat_done[1].row = 2
    /\ "location" \in DOMAIN bat_done[1].data /\ bat_done[1].data["location"] = ""
    /\ bat_sheet[2].C = "new" /\ bat_values[2].C = "In Transit"
    /\ bat_sheet[2].E = "Reno, NV"
    /\ bat_sheet[2].A = bat_values[2].A
    /\ bat_sheet[2].G = "new" /\ bat_done[1].data["estimated_delivery"] = "Estimated delivery: new"

(***************************************************************************)
(* Claims about the formatters                                             *)
(***************************************************************************)
\* The number two ASCII digits write.
NumOf(chars) == CHOOSE n \in 0..99 : Two(n) = chars
AsciiDigitString(s, n) == s /= NoneStr /\ Len(s) = n /\ \A k \in 1..n : s[k] \in Digits10
\* Absent, empty, shorter than n, or with a character that is no digit.
NotDigitsOrShort(s, n) ==
    \/ s = NoneStr \/ Len(s) < n
    \/ \E k \in 1..Len(s) : s[k] \notin DecimalDigits \cup {SupDigit}

\* C18: format_api_time turns HHMMSS with HH in 00..23 into '<h>:<MM> AM|PM',
\* h being 12 for HH 00 and 12 and HH mod 12 otherwise, MM the minutes as
\* given, AM exactly when HH < 12; a string that is not all digits or is
\* shorter than 6 characters is returned unchanged.
Thm_C18_time ==
    fmt_op.name = "UPSApi.format_api_time" =>
        /\ (AsciiDigitString(fmt_op.arg, 6) /\ NumOf(SubSeq(fmt_op.arg, 1, 2)) \in 0..23) =>
              LET hh == NumOf(SubSeq(fmt_op.arg, 1, 2))
                  h == IF hh \in {0, 12} THEN 12 ELSE hh % 12
              IN  /\ h \in 1..12
                  /\ fmt_ret = ToString(h) \o ":" \o Str(SubSeq(fmt_op.arg, 3, 4)) \o " "
                               \o (IF hh < 12 THEN "AM" ELSE "PM")
        /\ NotDigitsOrShort(fmt_op.arg, 6) => fmt_ret = ToStr(fmt_op.arg)

\* '000000' formatted: '12:00 AM'.
Wit_C18_time ==
    /\ fmt_op.name = "UPSApi.format_api_time"
    /\ fmt_op.arg = <<"0", "0", "0", "0", "0", "0">>
    /\ fmt_ret = "12:00 AM"

Cex_C20_unknown ==
    fmt_op.name = "DHLApi.format_api_date" =>
        IF fmt_op.arg = NoneStr \/ fmt_op.arg = <<>> THEN fmt_ret = "Unknown"
        ELSE IF fromisoformat(DropZ(fmt_op.arg)).ok
        THEN fmt_ret = HumanFormat(fromisoformat(DropZ(fmt_op.arg)).value)
        ELSE fmt_ret = "Unknown"

\* The rows of the run handed to a UPS adapter: non-empty cells classified UPS
\* or UNKNOWN.
UpsRows == {k \in DOMAIN bat_done : bat_done[k].outcome /= "empty" /\ bat_done[k].carrier \in {"UPS", "UNKNOWN"}}
RECURSIVE OAuthRequests(_)
OAuthRequests(k) == IF k = 0 THEN 0 ELSE OAuthRequests(k - 1) + Times(bat_done[k].calls, "oauth")

\* C29: in a batch run every row handed to a UPS adapter makes one OAuth token
\* request of its own and no other row makes any, so the requests of the run
\* number the rows classified UPS or UNKNOWN.
Thm_C29_token_per_row ==
    /\ \A k \in DOMAIN bat_done :
            Times(bat_done[k].calls, "oauth") = (IF k \in UpsRows THEN 1 ELSE 0)
    /\ OAuthRequests(Len(bat_done)) = Cardinality(UpsRows)

\* A run over a UPS number and an unknown number, each granted a token and
\* sent on to the tracking endpoint: two token requests.
Wit_C29_token_per_row ==
    /\ bat_end = "completed"
    /\ Len(bat_done) = 2
    /\ bat_done[1].carrier = "UPS" /\ bat_done[2].carrier = "UNKNOWN"
    /\ \A k \in 1..2 : Pos(bat_done[k].calls, "oauth") < Pos(bat_done[k].calls, "track")
    /\ OAuthRequests(2) = 2

(***************************************************************************)
(* Claims about the batch driver                                           *)
(***************************************************************************)
\* The rows handed to process_tracking_number so far.
HandedRows == {bat_done[k].row : k \in DOMAIN bat_done}
\* The rows of the loop whose tracking cell is not empty.
FilledRows(upto) == {i \in 2..upto : i <= Len(bat_values) /\ bat_values[i].A /= <<>>}

\* C5: whatever earlier rows led to (an error record, no adapter, an exception
\* while processing), every non-empty tracking cell the loop has passed was
\* handed to process_tracking_number and the loop has a next turn or its exit
\* to take, a run that entered the loop ends with every such cell of the sheet
\* handed over, and the run ends.
Thm_C5_rows_isolated ==
    /\ [](bat_pc = "loop" => /\ FilledRows(bat_i - 1) \subseteq HandedRows
                             /\ bat_i \in 2..(Len(bat_values) + 1))
    /\ []((bat_pc = "done" /\ bat_i >= 2) =>
             (bat_end = "completed" /\ FilledRows(Len(bat_values)) \subseteq HandedRows))
    /\ <>(bat_pc = "done")

\* A finished run in which an exception was raised while an earlier row was
\* processed and a later row was tracked and written.
Wit_C5_rows_isolated ==
    /\ bat_pc = "done" /\ bat_end = "completed"
    /\ \E j, k \in DOMAIN bat_done :
         /\ j < k
         /\ bat_done[j].outcome = "exception" /\ bat_done[j].caught
         /\ bat_done[k].outcome = "updated" /\ bat_done[k].write_ok
         /\ bat_sheet[bat_done[k].row].C /= ""

\* C6: with sheet writes succeeding, every processed row whose tracking cell
\* holds a number has a status written to its column C, whichever carrier the
\* number is classified as; main ends by itself.
Cex_C6_status_written ==
    /\ bat_end \in {"-", "completed", "returned", "error"}
    /\ \A k \in DOMAIN bat_done :
         LET d == bat_done[k]
         IN  (d.write_ok /\ strip(bat_values[d.row].A) /= <<>>) =>
                /\ d.carrier \in {"UPS", "USPS", "DHL", "UNKNOWN"}
                /\ \E u \in d.updates :
                     /\ u.range = [col |-> "C", row |-> d.row]
                     /\ TruthyS(u.value)
                     /\ bat_sheet[d.row].C = u.value
(***************************************************************************)
(* Claims about the seeder                                                 *)
(***************************************************************************)
\* The writes of tracking numbers: those below the header row.
NumberWrites == {k \in DOMAIN seed_writes : seed_writes[k].range.row > 1}
\* No number is in two cells of the column.
NoRepeats(col) == \A r, q \in DOMAIN col : (r /= q /\ col[r] /= "") => col[r] /= col[q]
\* The last row of the column holding anything (0: none).
LastFilled(col) == Len(col_values(col))

\* C27: add_tracking_numbers_to_sheet writes only cells of column A; a number
\* it writes is not in column A when it is written, neither from before the
\* call nor from an earlier write of the call; so a column without repeated
\* numbers before the call has none after it.
Cex_C27_no_duplicates ==
    seed_pc = "done" =>
        /\ \A k \in DOMAIN seed_writes : seed_writes[k].range.col = "A"
        /\ \A k \in NumberWrites :
                /\ \A r \in DOMAIN seed_before : seed_before[r] /= seed_writes[k].value
                /\ \A j \in NumberWrites : j < k => seed_writes[j].value /= seed_writes[k].value
        /\ NoRepeats(seed_before) => NoRepeats(seed_col)

\* C30: whatever column A held, add_tracking_numbers_to_sheet overwrites no
\* non-empty cell of it, writes every new number below all the entries the
\* column had, and writes the new numbers to distinct consecutive rows.
Cex_C30_append_only ==
    seed_pc = "done" =>
        /\ \A r \in DOMAIN seed_before : seed_before[r] /= "" => seed_col[r] = seed_before[r]
        /\ \A k \in NumberWrites : seed_writes[k].range.row > LastFilled(seed_before)
        /\ \A k, j \in NumberWrites :
                j = k + 1 => seed_writes[j].range.row = seed_writes[k].range.row + 1

====
